---- MODULE Spec2Model ----
(***************************************************************************)
(* State-machine model of the Klaviyo statistics synchronisation of the    *)
(* email-server repository:                                                *)
(*   - getFlowDefinitions (src/lib/helpers/flow-definitions.js), the       *)
(*     rate-limited flow-definition scheduler  -> specification SpecFD     *)
(*     (SpecFDSettling: the same with every await settling)                *)
(*   - klaviyoUpdateStats (src/lib/helpers/stats-sync.js) driven by the    *)
(*     POST /sync route (src/unnamed/part_001) -> specification Spec       *)
(*   - POST /sync/bulk and POST /sync on stores with or without           *)
(*     credentials                           -> specification SpecBulk     *)
(*   - searchWithAccessControl and GET /:id  -> specification SpecAccess   *)
(*   - klaviyoGetAll / klaviyoReportPost     -> specification SpecPages    *)
(*   - the two merges of stats-merger.js     -> specification SpecMerge    *)
(*   - buildMessageDetailsMap                -> specification SpecDetails  *)
(* Times are integer milliseconds, as Date.now() gives them.               *)
(***************************************************************************)
EXTENDS Integers, Sequences, FiniteSets, TLC

\* ------------------------------------------------------------------ bounds
\* longest id list handed to getFlowDefinitions
MaxIds == 7
\* most flow-definition fetches that fail in one call of getFlowDefinitions
MaxFailures == 2

\* latencies (ms) one upstream flow-definition request can take
FetchDurations == {50, 950, 9900}

\* datasets the upstream API can serve
NumDatasets == 2
\* clock ticks of TickMs a run can take
MaxTicks == 2
\* most documents of a stat collection the read API is run on
MaxDocs == 3
\* longest chain of pages the upstream serves
MaxChain == 3
\* most rows of a flow report handed to the merge
MaxRows == 2
\* actions in the flow definitions given to buildMessageDetailsMap
MaxActions == 2

\* ------------------------------------------------------ program constants
\* stats-sync.js line 10
FRESHNESS_THRESHOLD_MS == 1 * 60 * 1000
\* the eight fetches of the Promise.all of lines 26-115
FanOutSize == 8
\* Date.now() when the run starts (far beyond one threshold after the
\* epoch), and the step of the clock (two steps make one threshold)
StartMs == 10 * FRESHNESS_THRESHOLD_MS
TickMs == FRESHNESS_THRESHOLD_MS \div 2
maxBurst == 3
burstWindowMs == 1000
batchSize == maxBurst
batchDelayMs == burstWindowMs
\* Math.min(30, ...): the burst budget
BurstCap == 30
\* elapsedSeconds < 10 / >= 10, in milliseconds
BurstPhaseMs == 10 * 1000
\* setTimeout(resolve, 100 * index)
StaggerMs == 100
\* Math.max(1000, 1000 - batchDuration)
SteadyDelayMs == 1000

\* ------------------------------------------------------------- variables
VARIABLES
    \* --- getFlowDefinitions
    fdPc,               \* "loop" | "batch" | "wait" | "done"
    flowIds,            \* the id array (mutated by splice)
    i,                  \* loop cursor (0-based, as in the code)
    totalRequests,
    results,            \* definitions pushed (a definition is named by its id)
    errors,             \* the errors array
    clock,              \* Date.now() - startTime, ms
    batchStartTime,
    elapsedMs,          \* elapsedSeconds * 1000 of the current iteration
    batchLen,           \* batch.length of the current iteration
    effectiveBatchSize,
    shouldThrottle,
    actualBatch,
    delayMs,
    inputIds,           \* the id list as passed by the caller
    requestLog,         \* <<id, time>> of every request issued, in order
    failedIds,          \* ids whose fetch (klaviyoGet) was rejected
    leftAtStart         \* flowIds.length - i when the iteration began

fdVars == <<fdPc, flowIds, i, totalRequests, results, errors, clock,
            batchStartTime, elapsedMs, batchLen, effectiveBatchSize,
            shouldThrottle, actualBatch, delayMs, inputIds, requestLog,
            failedIds, leftAtStart>>

\* --- klaviyoUpdateStats / POST /sync
VARIABLES
    now,                \* Date.now(), ms
    stores,             \* Store collection: store id -> row
    campaignStats,      \* CampaignStat collection: set of documents
    flowStats,          \* FlowStat collection: set of documents
    pc,                 \* position of each sync request
    target,             \* store id of each request
    hasDate,            \* request carries an explicit date
    store,              \* the row as read by the route (argument `store`)
    fetched,            \* dataset received by the fan-out
    merged,             \* merged campaign records (line 117)
    mergedFlows,        \* merged flow records (line 139)
    cursor,             \* index of the next record in the upsert loops
    updatedStore,       \* the row returned by the account update (line 152)
    returned,           \* value the call resolved with
    outcome,            \* "none" | "skipped" | "ok" | "error"
    failedAt,           \* step at which the attempt failed
    upstreamRequests,   \* upstream requests issued by each request
    writeLog,           \* storage writes applied for each request, in order
    lastEnded,          \* store id -> outcome of the attempt that ended last
    afterFailure,       \* the row was read right after a failed attempt
    completed,          \* what a successful call merged, and the collections
                        \* as they were when it returned
    predecessors           \* the requests of the store that had ended when the
                        \* row was read, no other being at work on the store

syncVars == <<now, stores, campaignStats, flowStats, pc, target,
              hasDate, store, fetched, merged, mergedFlows,
              cursor, updatedStore, returned, outcome, failedAt,
              upstreamRequests, writeLog, lastEnded, afterFailure, completed, predecessors>>

\* --- POST /sync/bulk
VARIABLES
    apiKeys,            \* stores whose klaviyo_integration.apiKey is set
    bulkPc,             \* "idle" | "running" | "responded"
    bulkStores,         \* the rows Store.find returned, as store ids in order
    bulkResponse        \* the response of the bulk request

bulkVars == <<apiKeys, bulkPc, bulkStores, bulkResponse>>

\* --- searchWithAccessControl, GET /:id
VARIABLES
    users,              \* User collection: user id -> stores array (grants)
    request,            \* the request being answered
    response,           \* its answer
    statQueries         \* queries run on the stat collections by the request

accessVars == <<users, request, response, statQueries>>

\* --- klaviyoGetAll / klaviyoReportPost
VARIABLES
    chain,              \* the pages the upstream serves, in link order
    endless,            \* the last page links back to the first one
    failingPage,        \* page answered with a non-success status (0: none)
    post,               \* TRUE: klaviyoReportPost, FALSE: klaviyoGetAll
    pgPc,               \* "loop" | "done" | "failed"
    url,                \* page the next request goes to (0: null)
    allData,
    allIncluded,
    allResults,
    firstResponse,      \* page number of the first response (0: null)
    pageRequests,       \* page numbers requested, in order
    payload,            \* the payload argument (Absent: none)
    exchanges,          \* what was sent and the status received, per request
    pageError,          \* the error the call was rejected with
    pageResult          \* the value the call resolved with

pageVars == <<chain, endless, failingPage, post, pgPc, url, allData,
              allIncluded, allResults, firstResponse, pageRequests,
              payload, exchanges, pageError, pageResult>>

\* --- mergeFlowStatsWithMeta on its own
VARIABLES
    reportRows,         \* results of the flow-series report
    detailsMap,         \* message ids of the messageDetailsMap
    mergeOutput,        \* the array returned
    mergePc,            \* "call" | "returned" | "repeated"
    campaignRows,       \* results of the campaign-values report
    campaignOutput,     \* the array mergeCampaignStatsWithMeta returned
    campaignPc,         \* "call" | "returned" | "repeated"
    metaInputs,         \* the campaigns, flows, tags, segments and lists
                        \* arguments, each as the ids of its elements
    \* --- buildMessageDetailsMap on its own
    flowDefinitions,    \* the array of flow definitions passed in
    messageMap,         \* the object returned: message id -> details
    mapPc               \* "call" | "returned"

mergeVars == <<reportRows, detailsMap, mergeOutput, mergePc,
               campaignRows, campaignOutput, campaignPc, metaInputs,
               flowDefinitions, messageMap, mapPc>>

nonFdVars == <<syncVars, bulkVars, accessVars, pageVars, mergeVars>>

vars == <<fdVars, syncVars, bulkVars, accessVars, pageVars, mergeVars>>

\* ------------------------------------------------------------- helpers
Min(a, b) == IF a < b THEN a ELSE b
Max(a, b) == IF a > b THEN a ELSE b

Range(s) == {s[k] : k \in 1..Len(s)}

\* Array.prototype.slice(from, to) with 0-based, end-exclusive indices
Slice(s, from, to) ==
    LET lo == Min(Max(from, 0), Len(s))
        hi == Min(Max(to, lo), Len(s))
    IN  [k \in 1..(hi - lo) |-> s[lo + k]]

\* Array.prototype.splice(at, 0, ...items): insert items before 0-based index at
Splice(s, at, items) ==
    LET a == Min(at, Len(s))
    IN  Slice(s, 0, a) \o items \o Slice(s, a, Len(s))

\* (variant) the first failed fetch of a batch discards the rest of the batch
RECURSIVE FilterOkUntilFailure(_, _)
FilterOkUntilFailure(batch, ok) ==
    IF batch = <<>> \/ ~ok[1] THEN <<>>
    ELSE <<batch[1]>> \o FilterOkUntilFailure(Tail(batch), Tail(ok))

\* results.filter(Boolean) on the batch results: keep the non-null ones.
\* ok[k] = TRUE when request k of the batch was answered successfully.
RECURSIVE FilterOk(_, _)
FilterOk(batch, ok) ==
    IF batch = <<>> THEN <<>>
    ELSE (IF ok[1] THEN <<batch[1]>> ELSE <<>>)
         \o FilterOk(Tail(batch), Tail(ok))

\* 1000 * Math.min(30, 3 * Math.max(1, elapsedSeconds)), exact in thousandths
BurstLimitMilli(elapsed) == Min(BurstCap * 1000, 3 * Max(1000, elapsed))

\* (variant) without Math.max(1, ...)
TruncatedBatchSizeUnclamped(elapsed, total) ==
    (BurstLimitMilli(elapsed) - 1000 * total) \div 1000

\* (variant) the batch is not reduced
TruncatedBatchSizeFull(elapsed, total) == maxBurst

\* Math.max(1, Math.floor(burstLimit - totalRequests))
TruncatedBatchSize(elapsed, total) ==
    Max(1, (BurstLimitMilli(elapsed) - 1000 * total) \div 1000)

\* lines 53-64: the effective batch size of an iteration
EffectiveBatchSize(len, elapsed, total) ==
    IF 1000 * (total + len) > BurstLimitMilli(elapsed) /\ elapsed < BurstPhaseMs
    THEN TruncatedBatchSize(elapsed, total)
    ELSE IF elapsed >= BurstPhaseMs THEN 1 ELSE len

\* lines 54-64: shouldThrottle of an iteration
ShouldThrottle(len, elapsed, total) ==
    \/ 1000 * (total + len) > BurstLimitMilli(elapsed) /\ elapsed < BurstPhaseMs
    \/ elapsed >= BurstPhaseMs

\* lines 98-107: delay before the next batch
DelayMs(throttle, elapsed, batchDuration) ==
    IF throttle \/ elapsed >= BurstPhaseMs
    THEN Max(SteadyDelayMs, SteadyDelayMs - batchDuration)
    ELSE Max(batchDelayMs - batchDuration, 0)

\* ------------------------------------------------- getFlowDefinitions
\* results.map(result => result.groupings.flow_id)
FlowIdsOf(rows) == [k \in 1..Len(rows) |-> rows[k].flow_id]

\* [...new Set(list)]: the elements in the order of their first occurrence
RECURSIVE FirstOccurrences(_)
FirstOccurrences(list) ==
    IF list = <<>> THEN <<>>
    ELSE LET front == FirstOccurrences(SubSeq(list, 1, Len(list) - 1))
             last  == list[Len(list)]
         IN  IF \E k \in 1..Len(front) : front[k] = last
             THEN front ELSE Append(front, last)

\* stats-sync.js line 127: the flow ids of the rows, each once
uniqueFlowIdList(rows) == FirstOccurrences(FlowIdsOf(rows))

\* a flow report on the flows 1..n: one row per flow, and a second row
\* right after it for the flows of twice
RECURSIVE FlowReportOn(_, _)
FlowReportOn(n, twice) ==
    IF n = 0 THEN <<>>
    ELSE FlowReportOn(n - 1, twice)
         \o (IF n \in twice THEN <<[flow_id |-> n], [flow_id |-> n]>>
                             ELSE <<[flow_id |-> n]>>)

\* stats-sync.js lines 127-132: the id list is that of the flows of a flow
\* report, whose rows can name a flow several times
InitFD ==
    /\ \E n \in 0..MaxIds : \E twice \in SUBSET (1..n) :
          inputIds = uniqueFlowIdList(FlowReportOn(n, twice))
    /\ flowIds = inputIds
    /\ fdPc = "loop"
    /\ i = 0
    /\ totalRequests = 0
    /\ results = <<>>
    /\ errors = <<>>
    /\ clock = 0
    /\ batchStartTime = 0
    /\ elapsedMs = 0
    /\ batchLen = 0
    /\ effectiveBatchSize = 0
    /\ shouldThrottle = FALSE
    /\ actualBatch = <<>>
    /\ delayMs = 0
    /\ requestLog = <<>>
    /\ failedIds = {}
    /\ leftAtStart = 0

\* lines 45-85: loop test, batch sizing, and the requests of the batch are
\* started (request k of the batch leaves after a stagger of 100 * k ms)
BeginBatch ==
    /\ fdPc = "loop"
    /\ i < Len(flowIds)
    /\ LET batch == Slice(flowIds, i, i + batchSize)
           eff   == EffectiveBatchSize(Len(batch), clock, totalRequests)
           ab    == Slice(batch, 0, eff)
       IN  /\ batchLen' = Len(batch)
           /\ effectiveBatchSize' = eff
           /\ shouldThrottle' = ShouldThrottle(Len(batch), clock, totalRequests)
           /\ actualBatch' = ab
           /\ requestLog' = requestLog \o
                 [k \in 1..Len(ab) |-> <<ab[k], clock + StaggerMs * (k - 1)>>]
    /\ batchStartTime' = clock
    /\ elapsedMs' = clock
    /\ leftAtStart' = Len(flowIds) - i
    /\ fdPc' = "batch"
    /\ UNCHANGED <<flowIds, i, totalRequests, results, errors, clock, delayMs,
                   inputIds, failedIds>>
    /\ UNCHANGED nonFdVars

\* getFlowDefinition (lines 9-17): a rejected klaviyoGet is caught and
\* becomes null; nothing is thrown to the caller, so the catch of lines
\* 80-84 (errors.push) is never entered.
\* lines 87-107: Promise.all settles, results are pushed, the remaining ids
\* of a truncated batch are spliced back, the delay is computed.
EndBatch ==
    /\ fdPc = "batch"
    /\ \E ok \in [1..Len(actualBatch) -> BOOLEAN],
          dur \in [1..Len(actualBatch) -> FetchDurations] :
         LET newFailed == {actualBatch[k] : k \in {j \in 1..Len(actualBatch) : ~ok[j]}}
             finish(k) == StaggerMs * (k - 1) + dur[k]
             batchDuration ==
                 CHOOSE d \in {finish(k) : k \in 1..Len(actualBatch)} :
                     \A k \in 1..Len(actualBatch) : finish(k) <= d
             remaining == Slice(flowIds, i + effectiveBatchSize, i + batchLen)
         IN  /\ Cardinality(failedIds \cup newFailed) <= MaxFailures
             /\ failedIds' = failedIds \cup newFailed
             /\ results' = results \o FilterOk(actualBatch, ok)
             /\ totalRequests' = totalRequests + Len(actualBatch)
             /\ flowIds' = IF effectiveBatchSize < batchLen
                           THEN Splice(flowIds, i + effectiveBatchSize, remaining)
                           ELSE flowIds
             /\ clock' = batchStartTime + batchDuration
             /\ delayMs' = DelayMs(shouldThrottle, elapsedMs, batchDuration)
    /\ fdPc' = "wait"
    /\ UNCHANGED <<i, errors, batchStartTime, elapsedMs, batchLen,
                   effectiveBatchSize, shouldThrottle, actualBatch, inputIds,
                   requestLog, leftAtStart>>
    /\ UNCHANGED nonFdVars

\* (variant) the cursor moves past the ids that were requested only
NextCursorPastRequested(cur, eff) == cur + eff

\* (variant) the cursor moves by one id
NextCursorByOne(cur, eff) == cur + 1

\* line 45: i += batchSize
NextCursor(cur, eff) == cur + batchSize

\* lines 110-113 and the loop increment: wait delayMs when another batch
\* follows, then i += batchSize
NextBatch ==
    /\ fdPc = "wait"
    /\ clock' = IF i + batchSize < Len(flowIds) /\ delayMs > 0
                THEN clock + delayMs ELSE clock
    /\ i' = NextCursor(i, effectiveBatchSize)
    /\ fdPc' = "loop"
    /\ UNCHANGED <<flowIds, totalRequests, results, errors, batchStartTime,
                   elapsedMs, batchLen, effectiveBatchSize, shouldThrottle,
                   actualBatch, delayMs, inputIds, requestLog, failedIds,
                   leftAtStart>>
    /\ UNCHANGED nonFdVars

\* lines 116-123: loop exit, return results
ReturnResults ==
    /\ fdPc = "loop"
    /\ i >= Len(flowIds)
    /\ fdPc' = "done"
    /\ UNCHANGED <<flowIds, i, totalRequests, results, errors, clock,
                   batchStartTime, elapsedMs, batchLen, effectiveBatchSize,
                   shouldThrottle, actualBatch, delayMs, inputIds, requestLog,
                   failedIds, leftAtStart>>
    /\ UNCHANGED nonFdVars


\* ------------------------------------------------ klaviyoUpdateStats
StoreIds == {"s1", "s2"}
\* the sync requests of a run: two, so that they can race on one store
Procs == {1, 2}
Datasets == 1..NumDatasets

\* a field that a document or a merged record does not carry
Absent == 0
\* last_dashboard_sync of a store that was never synced (undefined)
Never == 0

\* what the upstream API serves: dataset d of the campaign-values report
ReportCampaignRows(d) ==
    IF d = 1
    THEN << [campaign_id |-> "c1", campaign_message_id |-> "m1",
             send_channel |-> "email", statistics |-> [opens |-> 1]] >>
    ELSE << [campaign_id |-> "c1", campaign_message_id |-> "m1",
             send_channel |-> "email", statistics |-> [opens |-> d]],
            [campaign_id |-> "c1", campaign_message_id |-> "m2",
             send_channel |-> "sms", statistics |-> [opens |-> d]],
            [campaign_id |-> "c2", campaign_message_id |-> "m3",
             send_channel |-> "push-notification",
             statistics |-> [opens |-> d]] >>

\* dataset d of the flow-series report
ReportFlowRows(d) ==
    IF d = 1
    THEN << [flow_id |-> "f1", flow_message_id |-> "fm1",
             send_channel |-> "email", statistics |-> 1] >>
    ELSE << [flow_id |-> "f1", flow_message_id |-> "fm1",
             send_channel |-> "email", statistics |-> d],
            [flow_id |-> "f2", flow_message_id |-> "fm2",
             send_channel |-> "sms", statistics |-> d] >>

\* the flow whose definition holds a message
FlowOfMessage(m) == IF m = "fm1" THEN "f1" ELSE "f2"

RECURSIVE SelectRows(_, _)
SelectRows(rows, keep) ==
    IF rows = <<>> THEN <<>>
    ELSE (IF rows[1].send_channel \in keep THEN <<rows[1]>> ELSE <<>>)
         \o SelectRows(Tail(rows), keep)

\* stats-merger.js lines 54-80: the fixed statistics vector, by five of its
\* twenty-seven fields (counts, rates and values); the code gives every
\* field the same default and lets the row override each the same way
StatFields ==
    {"opens", "open_rate", "recipients", "conversion_value",
     "revenue_per_recipient"}

\* (variant) the statistics of the row are passed on as they are
rawStatistics(stats) == stats

\* lines 53-82: { <every field of the vector>: 0, ...r.statistics }. A
\* statistics object is the function from the names of its fields to
\* their values; spreading an undefined statistics adds no field, as
\* spreading an empty object does, so both are the empty function.
normalizedStatistics(stats) ==
    [f \in StatFields \cup DOMAIN stats |->
        IF f \in DOMAIN stats THEN stats[f] ELSE 0]

\* (variant) every row yields a record, whatever its channel
mergeCampaignStatsAllChannels(rows) ==
    [k \in 1..Len(rows) |->
        [rows[k] EXCEPT !.statistics = normalizedStatistics(@)]]

\* stats-merger.js lines 44-99: the rows of channel email or sms, in input
\* order, each with its statistics normalised
mergeCampaignStatsWithMeta(rows) ==
    LET kept == SelectRows(rows, {"email", "sms"})
    IN  [k \in 1..Len(kept) |->
            [kept[k] EXCEPT !.statistics = normalizedStatistics(@)]]

\* (variant) a row whose message is not in the lookup yields no record
mergeFlowStatsDetailedOnly(rows, messageDetailsMap) ==
    LET Detailed(row) == row.flow_message_id \in messageDetailsMap
        kept == SelectSeq(rows, Detailed)
    IN  [k \in 1..Len(kept) |->
            [flow_id |-> kept[k].flow_id,
             flow_message_id |-> kept[k].flow_message_id,
             send_channel |-> kept[k].send_channel,
             statistics |-> kept[k].statistics,
             message_name |-> kept[k].statistics]]

\* (variant) the records are merged by flow: the message of a row is not
\* kept apart
mergeFlowStatsByFlow(rows, messageDetailsMap) ==
    [k \in 1..Len(rows) |->
        [flow_id |-> rows[k].flow_id,
         flow_message_id |-> rows[k].flow_id,
         send_channel |-> rows[k].send_channel,
         statistics |-> rows[k].statistics,
         message_name |-> IF rows[k].flow_message_id \in messageDetailsMap
                          THEN rows[k].statistics ELSE Absent]]

\* stats-merger.js: one record per row; ...messageDetails spreads the
\* message fields only when the lookup has the message id
mergeFlowStatsWithMeta(rows, messageDetailsMap) ==
    [k \in 1..Len(rows) |->
        [flow_id |-> rows[k].flow_id,
         flow_message_id |-> rows[k].flow_message_id,
         send_channel |-> rows[k].send_channel,
         statistics |-> rows[k].statistics,
         message_name |-> IF rows[k].flow_message_id \in messageDetailsMap
                          THEN rows[k].statistics ELSE Absent]]

\* line 127: [...new Set(results.map(r => r.groupings.flow_id))]
uniqueFlowIds(rows) == {rows[k].flow_id : k \in 1..Len(rows)}

\* buildMessageDetailsMap: ids of the messages of the fetched definitions
buildMessageDetailsMap(defs, rows) ==
    {rows[k].flow_message_id : k \in {j \in 1..Len(rows) :
                                       FlowOfMessage(rows[j].flow_message_id) \in defs}}

\* (variant) the gate with && in place of ||
GateSkipsBoth(row, t) ==
    row.is_updating_dashboard /\ (t - row.last_dashboard_sync < FRESHNESS_THRESHOLD_MS)

\* line 15: the freshness gate, on the row the caller passed in
GateSkips(row, t) ==
    LET lastSync == IF row.last_dashboard_sync # Never
                    THEN row.last_dashboard_sync ELSE 0
    IN  row.is_updating_dashboard \/ (t - lastSync < FRESHNESS_THRESHOLD_MS)

\* (variant) the filter names the campaign only, not the account
CampaignUpsertAnyStore(coll, s, stat) ==
    LET match == {doc \in coll : doc.campaign_id = stat.campaign_id}
        new   == [store_id |-> s, campaign_id |-> stat.campaign_id,
                  campaign_message_id |-> stat.campaign_message_id,
                  send_channel |-> stat.send_channel,
                  statistics |-> stat.statistics]
    IN  IF match = {} THEN coll \cup {new}
        ELSE LET old == CHOOSE doc \in match : TRUE
             IN  (coll \ {old}) \cup {new}

\* CampaignStat.updateOne(filter {store_id, groupings.campaign_id},
\*                        {$set: {...stat, store_id, store_public_id}}, {upsert: true})
CampaignUpsert(coll, s, stat) ==
    LET match == {doc \in coll : doc.store_id = s /\ doc.campaign_id = stat.campaign_id}
        new   == [store_id |-> s, campaign_id |-> stat.campaign_id,
                  campaign_message_id |-> stat.campaign_message_id,
                  send_channel |-> stat.send_channel,
                  statistics |-> stat.statistics]
    IN  IF match = {} THEN coll \cup {new}
        ELSE LET old == CHOOSE doc \in match : TRUE
             IN  (coll \ {old}) \cup {new}

\* (variant) an upsert that adds the new statistics to the stored ones
FlowUpsertAdding(coll, s, stat) ==
    LET match == {doc \in coll : /\ doc.store = s
                                 /\ doc.flow_id = stat.flow_id
                                 /\ doc.flow_message_id = stat.flow_message_id
                                 /\ doc.send_channel = stat.send_channel}
        fresh == [store |-> s, flow_id |-> stat.flow_id,
                  flow_message_id |-> stat.flow_message_id,
                  send_channel |-> stat.send_channel,
                  statistics |-> stat.statistics,
                  message_name |-> stat.message_name]
    IN  IF match = {} THEN coll \cup {fresh}
        ELSE LET old == CHOOSE doc \in match : TRUE
             IN  (coll \ {old}) \cup
                 {[fresh EXCEPT !.statistics = old.statistics + stat.statistics]}

\* (variant) the record is inserted without looking for a stored one
FlowInsert(coll, s, stat) ==
    coll \cup {[store |-> s, flow_id |-> stat.flow_id,
                flow_message_id |-> stat.flow_message_id,
                send_channel |-> stat.send_channel,
                statistics |-> stat.statistics,
                message_name |-> stat.message_name]}

\* FlowStat.updateOne(filter {store, flow_id, flow_message_id, send_channel},
\*                    {$set: {...stat, store, store_public_id, last_updated}}, {upsert: true})
\* $set writes the fields the record carries and leaves the others
\* (last_updated, the time of the write, is not kept in the model)
FlowUpsert(coll, s, stat) ==
    LET match == {doc \in coll : /\ doc.store = s
                                 /\ doc.flow_id = stat.flow_id
                                 /\ doc.flow_message_id = stat.flow_message_id
                                 /\ doc.send_channel = stat.send_channel}
        fresh == [store |-> s, flow_id |-> stat.flow_id,
                  flow_message_id |-> stat.flow_message_id,
                  send_channel |-> stat.send_channel,
                  statistics |-> stat.statistics,
                  message_name |-> stat.message_name]
    IN  IF match = {} THEN coll \cup {fresh}
        ELSE LET old == CHOOSE doc \in match : TRUE
             IN  (coll \ {old}) \cup
                 {[fresh EXCEPT !.message_name =
                      IF stat.message_name = Absent THEN old.message_name
                      ELSE stat.message_name]}

NoRow == [is_updating_dashboard |-> FALSE, last_dashboard_sync |-> Never,
          tagNames |-> 0, flow_date_times |-> 0]

\* `completed` of a call that has not returned successfully
NoRun == [merged |-> <<>>, mergedFlows |-> <<>>, campaigns |-> {}, flows |-> {}]

\* no request is being handled
InitRequests ==
    /\ now = StartMs
    /\ completed = [p \in Procs |-> NoRun]
    /\ predecessors = [p \in Procs |-> {}]
    /\ pc = [p \in Procs |-> "idle"]
    /\ target = [p \in Procs |-> "s1"]
    /\ hasDate = [p \in Procs |-> FALSE]
    /\ store = [p \in Procs |-> NoRow]
    /\ fetched = [p \in Procs |-> 0]
    /\ merged = [p \in Procs |-> <<>>]
    /\ mergedFlows = [p \in Procs |-> <<>>]
    /\ cursor = [p \in Procs |-> 0]
    /\ updatedStore = [p \in Procs |-> NoRow]
    /\ returned = [p \in Procs |-> NoRow]
    /\ outcome = [p \in Procs |-> "none"]
    /\ failedAt = [p \in Procs |-> "none"]
    /\ upstreamRequests = [p \in Procs |-> 0]
    /\ writeLog = [p \in Procs |-> <<>>]
    /\ lastEnded = [s \in StoreIds |-> "none"]
    /\ afterFailure = [p \in Procs |-> FALSE]

\* every store has its credentials and was never synced
InitSync ==
    /\ stores = [s \in StoreIds |-> NoRow]
    /\ campaignStats = {}
    /\ flowStats = {}
    /\ InitRequests

restUnchanged == UNCHANGED <<fdVars, bulkVars, accessVars, pageVars, mergeVars>>

\* (variant) the credentials of the store are not looked at
ConfiguredAlways(s) == TRUE

\* store.klaviyo_integration?.apiKey (route lines 229 and 402)
Configured(s) == s \in apiKeys

\* POST /sync, lines 209-235 of the route: the row is read from storage;
\* a store without apiKey is answered 400 at once (outcome
\* "unconfigured"), the others enter klaviyoUpdateStats. A run has single
\* requests or a bulk request.
ReadStore(p, s, d) ==
    /\ pc[p] = "idle"
    /\ bulkPc = "idle"
    \* requests and stores are interchangeable: request 1 comes first, on s1
    /\ \A q \in Procs : q < p => pc[q] # "idle"
    /\ p = 1 => s = "s1"
    /\ pc' = [pc EXCEPT ![p] = IF Configured(s) THEN "gate" ELSE "done"]
    /\ outcome' = [outcome EXCEPT ![p] =
                      IF Configured(s) THEN @ ELSE "unconfigured"]
    /\ target' = [target EXCEPT ![p] = s]
    /\ hasDate' = [hasDate EXCEPT ![p] = d]
    /\ store' = [store EXCEPT ![p] = stores[s]]
    /\ afterFailure' = [afterFailure EXCEPT ![p] =
          /\ lastEnded[s] = "error"
          /\ \A q \in Procs \ {p} : target[q] = s => pc[q] \in {"idle", "done"}]
    /\ predecessors' = [predecessors EXCEPT ![p] =
          IF \A q \in Procs \ {p} : target[q] = s => pc[q] \in {"idle", "done"}
          THEN {q \in Procs \ {p} : target[q] = s /\ pc[q] = "done"}
          ELSE {}]
    /\ UNCHANGED <<now, stores, campaignStats, flowStats, fetched, merged, mergedFlows, cursor, updatedStore,
                   returned, failedAt, upstreamRequests, writeLog,
                   lastEnded, completed>>
    /\ restUnchanged

\* lines 11-20 with `row` as the row the gate looks at; fromDate
\* (new Date(undefined).toISOString() throws a RangeError, outside the try)
GateOn(p, row) ==
    /\ pc[p] = "gate"
    /\ IF GateSkips(row, now)
       THEN /\ pc' = [pc EXCEPT ![p] = "done"]
            /\ outcome' = [outcome EXCEPT ![p] = "skipped"]
            /\ returned' = [returned EXCEPT ![p] = store[p]]
            /\ UNCHANGED <<failedAt, lastEnded>>
       ELSE IF ~hasDate[p] /\ store[p].last_dashboard_sync = Never
       THEN /\ pc' = [pc EXCEPT ![p] = "done"]
            /\ outcome' = [outcome EXCEPT ![p] = "error"]
            /\ failedAt' = [failedAt EXCEPT ![p] = "fromDate"]
            /\ lastEnded' = [lastEnded EXCEPT ![target[p]] = "error"]
            /\ UNCHANGED returned
       ELSE /\ pc' = [pc EXCEPT ![p] = "lock"]
            /\ UNCHANGED <<outcome, returned, failedAt, lastEnded>>
    /\ UNCHANGED <<now, stores, campaignStats, flowStats, target, hasDate,
                   store, fetched, merged, mergedFlows, cursor,
                   updatedStore, upstreamRequests, writeLog, afterFailure, completed, predecessors>>
    /\ restUnchanged

\* (variant) the gate decides on the row as it is in storage now
GateOnStoredRow(p) == GateOn(p, stores[target[p]])

\* klaviyoUpdateStats(store, date), lines 8-20: the gate decides on the
\* argument `store`, the row as the route read it
Gate(p) == GateOn(p, store[p])

\* (variant) the fetches start without the flag having been written
SetFlagSkipped(p) ==
    /\ pc[p] = "lock"
    /\ pc' = [pc EXCEPT ![p] = "locked"]
    /\ UNCHANGED <<now, stores, campaignStats, flowStats, target, hasDate, store,
                   fetched, merged, mergedFlows, cursor, updatedStore,
                   returned, outcome, failedAt, upstreamRequests, writeLog,
                   lastEnded, afterFailure, completed, predecessors>>
    /\ restUnchanged

\* line 23: Store.findByIdOrPublicIdAndUpdate(store._id, {is_updating_dashboard: true})
SetFlag(p) ==
    /\ pc[p] = "lock"
    /\ stores' = [stores EXCEPT ![target[p]].is_updating_dashboard = TRUE]
    /\ writeLog' = [writeLog EXCEPT ![p] = Append(@, "flag:true")]
    /\ pc' = [pc EXCEPT ![p] = "locked"]
    /\ UNCHANGED <<now, campaignStats, flowStats, target, hasDate, store,
                   fetched, merged, mergedFlows, cursor,
                   updatedStore, returned, outcome, failedAt,
                   upstreamRequests, lastEnded, afterFailure, completed, predecessors>>
    /\ restUnchanged

\* (variant) the account row is given its new timestamp and cleared flag
\* when the fetches are started
StartFanOutAfterAccountWrite(p) ==
    /\ pc[p] = "locked"
    /\ upstreamRequests' = [upstreamRequests EXCEPT ![p] = @ + FanOutSize]
    /\ stores' = [stores EXCEPT ![target[p]] =
                     [@ EXCEPT !.is_updating_dashboard = FALSE,
                               !.last_dashboard_sync = now]]
    /\ writeLog' = [writeLog EXCEPT ![p] = Append(@, "account")]
    /\ pc' = [pc EXCEPT ![p] = "fanout"]
    /\ UNCHANGED <<now, campaignStats, flowStats, target, hasDate,
                   store, fetched, merged, mergedFlows, cursor,
                   updatedStore, returned, outcome, failedAt,
                   lastEnded, afterFailure, completed, predecessors>>
    /\ restUnchanged

\* lines 26-115: the eight fetches of the Promise.all are started
StartFanOut(p) ==
    /\ pc[p] = "locked"
    /\ upstreamRequests' = [upstreamRequests EXCEPT ![p] = @ + FanOutSize]
    /\ pc' = [pc EXCEPT ![p] = "fanout"]
    /\ UNCHANGED <<now, stores, campaignStats, flowStats, target, hasDate,
                   store, fetched, merged, mergedFlows, cursor,
                   updatedStore, returned, outcome, failedAt, writeLog,
                   lastEnded, afterFailure, completed, predecessors>>
    /\ restUnchanged

\* the step p fails at: control goes to the catch of line 167
Throw(p, step) ==
    /\ pc' = [pc EXCEPT ![p] = "catch"]
    /\ failedAt' = [failedAt EXCEPT ![p] = step]

\* (variant) a rejected fetch does not stop the sync (Promise.allSettled):
\* it goes on with what the other fetches returned
FanOutFailIgnored(p) ==
    /\ pc[p] = "fanout"
    /\ failedAt' = [failedAt EXCEPT ![p] = "fanout"]
    /\ fetched' = [fetched EXCEPT ![p] = 1]
    /\ merged' = [merged EXCEPT ![p] = mergeCampaignStatsWithMeta(ReportCampaignRows(1))]
    /\ pc' = [pc EXCEPT ![p] = "flowdefs"]
    /\ UNCHANGED <<now, stores, campaignStats, flowStats, target, hasDate,
                   store, mergedFlows, cursor, updatedStore, returned, outcome,
                   upstreamRequests, writeLog, lastEnded, afterFailure, completed, predecessors>>
    /\ restUnchanged

\* one of the eight fetches rejects: Promise.all rejects (line 26)
FanOutFail(p) ==
    /\ pc[p] = "fanout"
    /\ Throw(p, "fanout")
    /\ UNCHANGED <<now, stores, campaignStats, flowStats, target, hasDate,
                   store, fetched, merged, mergedFlows,
                   cursor, updatedStore, returned, outcome, upstreamRequests,
                   writeLog, lastEnded, afterFailure, completed, predecessors>>
    /\ restUnchanged

\* lines 26, 117-132: the Promise.all resolves (all eight fetches answered,
\* serving dataset d); campaign merge, unique flow ids, getFlowDefinitions
\* is called
Merge(p, d) ==
    /\ pc[p] = "fanout"
    /\ fetched' = [fetched EXCEPT ![p] = d]
    /\ merged' = [merged EXCEPT ![p] = mergeCampaignStatsWithMeta(ReportCampaignRows(d))]
    /\ upstreamRequests' = [upstreamRequests EXCEPT ![p] =
                               @ + Cardinality(uniqueFlowIds(ReportFlowRows(d)))]
    /\ pc' = [pc EXCEPT ![p] = "flowdefs"]
    /\ UNCHANGED <<now, stores, campaignStats, flowStats, target, hasDate,
                   store, mergedFlows, cursor, updatedStore,
                   returned, outcome, failedAt, writeLog, lastEnded,
                   afterFailure, completed, predecessors>>
    /\ restUnchanged

\* lines 132-161: getFlowDefinitions resolves with the definitions defs;
\* message-details lookup, flow merge; the account update is issued
FlowDefs(p, defs) ==
    /\ pc[p] = "flowdefs"
    /\ defs \subseteq uniqueFlowIds(ReportFlowRows(fetched[p]))
    /\ mergedFlows' = [mergedFlows EXCEPT ![p] =
          mergeFlowStatsWithMeta(ReportFlowRows(fetched[p]),
              buildMessageDetailsMap(defs, ReportFlowRows(fetched[p])))]
    /\ pc' = [pc EXCEPT ![p] = "update"]
    /\ UNCHANGED <<now, stores, campaignStats, flowStats, target, hasDate,
                   store, fetched, merged, cursor,
                   updatedStore, returned, outcome, failedAt,
                   upstreamRequests, writeLog, lastEnded, afterFailure, completed, predecessors>>
    /\ restUnchanged

\* lines 117-149 throw (a report without data.attributes.results, ...)
MergeFail(p) ==
    /\ pc[p] \in {"fanout", "flowdefs"}
    /\ Throw(p, "merge")
    /\ UNCHANGED <<now, stores, campaignStats, flowStats, target, hasDate,
                   store, fetched, merged, mergedFlows,
                   cursor, updatedStore, returned, outcome, upstreamRequests,
                   writeLog, lastEnded, afterFailure, completed, predecessors>>
    /\ restUnchanged

\* lines 152-161: the account row is updated, {new: true} returns it
UpdateStore(p) ==
    /\ pc[p] = "update"
    /\ LET row == [is_updating_dashboard |-> FALSE,
                   last_dashboard_sync |-> now,
                   tagNames |-> fetched[p],
                   flow_date_times |-> fetched[p]]
       IN  /\ stores' = [stores EXCEPT ![target[p]] = row]
           /\ updatedStore' = [updatedStore EXCEPT ![p] = row]
    /\ writeLog' = [writeLog EXCEPT ![p] = Append(@, "account")]
    /\ cursor' = [cursor EXCEPT ![p] = 1]
    /\ pc' = [pc EXCEPT ![p] = "campaigns"]
    /\ UNCHANGED <<now, campaignStats, flowStats, target, hasDate, store,
                   fetched, merged, mergedFlows, returned,
                   outcome, failedAt, upstreamRequests, lastEnded,
                   afterFailure, completed, predecessors>>
    /\ restUnchanged

\* upsertCampaignStats, lines 174-193: one updateOne per loop iteration
UpsertCampaign(p) ==
    /\ pc[p] = "campaigns"
    /\ IF cursor[p] <= Len(merged[p])
       THEN /\ campaignStats' = CampaignUpsert(campaignStats, target[p],
                                               merged[p][cursor[p]])
            /\ writeLog' = [writeLog EXCEPT ![p] = Append(@, "campaign")]
            /\ cursor' = [cursor EXCEPT ![p] = @ + 1]
            /\ UNCHANGED pc
       ELSE /\ pc' = [pc EXCEPT ![p] = "flows"]
            /\ cursor' = [cursor EXCEPT ![p] = 1]
            /\ UNCHANGED <<campaignStats, writeLog>>
    /\ UNCHANGED <<now, stores, flowStats, target, hasDate, store, fetched, merged, mergedFlows, updatedStore,
                   returned, outcome, failedAt, upstreamRequests, lastEnded,
                   afterFailure, completed, predecessors>>
    /\ restUnchanged

\* the locals of a call that has returned or thrown are gone
DropLocals(p) ==
    /\ fetched' = [fetched EXCEPT ![p] = 0]
    /\ merged' = [merged EXCEPT ![p] = <<>>]
    /\ mergedFlows' = [mergedFlows EXCEPT ![p] = <<>>]
    /\ cursor' = [cursor EXCEPT ![p] = 0]
    /\ updatedStore' = [updatedStore EXCEPT ![p] = NoRow]

\* (variant) a merged flow record without message details is not persisted
UpsertFlowDetailedOnly(p) ==
    /\ pc[p] = "flows"
    /\ IF cursor[p] <= Len(mergedFlows[p])
       THEN /\ IF mergedFlows[p][cursor[p]].message_name = Absent
               THEN UNCHANGED <<flowStats, writeLog>>
               ELSE /\ flowStats' = FlowUpsert(flowStats, target[p],
                                               mergedFlows[p][cursor[p]])
                    /\ writeLog' = [writeLog EXCEPT ![p] = Append(@, "flow")]
            /\ cursor' = [cursor EXCEPT ![p] = @ + 1]
            /\ UNCHANGED <<pc, outcome, returned, lastEnded, fetched, merged,
                           mergedFlows, updatedStore, completed>>
       ELSE /\ pc' = [pc EXCEPT ![p] = "done"]
            /\ outcome' = [outcome EXCEPT ![p] = "ok"]
            /\ returned' = [returned EXCEPT ![p] = updatedStore[p]]
            /\ lastEnded' = [lastEnded EXCEPT ![target[p]] = "ok"]
            /\ completed' = [completed EXCEPT ![p] =
                  [merged |-> merged[p], mergedFlows |-> mergedFlows[p],
                   campaigns |-> campaignStats, flows |-> flowStats]]
            /\ DropLocals(p)
            /\ UNCHANGED <<flowStats, writeLog>>
    /\ UNCHANGED <<now, stores, campaignStats, target, hasDate, store,
                   failedAt, upstreamRequests, afterFailure, predecessors>>
    /\ restUnchanged

\* upsertFlowStats, lines 195-221, and the return of line 166
UpsertFlow(p) ==
    /\ pc[p] = "flows"
    /\ IF cursor[p] <= Len(mergedFlows[p])
       THEN /\ flowStats' = FlowUpsert(flowStats, target[p],
                                       mergedFlows[p][cursor[p]])
            /\ writeLog' = [writeLog EXCEPT ![p] = Append(@, "flow")]
            /\ cursor' = [cursor EXCEPT ![p] = @ + 1]
            /\ UNCHANGED <<pc, outcome, returned, lastEnded, fetched, merged,
                           mergedFlows, updatedStore, completed>>
       ELSE /\ pc' = [pc EXCEPT ![p] = "done"]
            /\ outcome' = [outcome EXCEPT ![p] = "ok"]
            /\ returned' = [returned EXCEPT ![p] = updatedStore[p]]
            /\ lastEnded' = [lastEnded EXCEPT ![target[p]] = "ok"]
            /\ completed' = [completed EXCEPT ![p] =
                  [merged |-> merged[p], mergedFlows |-> mergedFlows[p],
                   campaigns |-> campaignStats, flows |-> flowStats]]
            /\ DropLocals(p)
            /\ UNCHANGED <<flowStats, writeLog>>
    /\ UNCHANGED <<now, stores, campaignStats, target, hasDate, store,
                   failedAt, upstreamRequests, afterFailure, predecessors>>
    /\ restUnchanged

\* the account update or an updateOne of the upsert loops rejects
PersistFail(p) ==
    /\ \/ pc[p] = "update"
       \/ pc[p] = "campaigns" /\ cursor[p] <= Len(merged[p])
       \/ pc[p] = "flows" /\ cursor[p] <= Len(mergedFlows[p])
    /\ Throw(p, IF pc[p] = "update" THEN "update" ELSE "upsert")
    /\ UNCHANGED <<now, stores, campaignStats, flowStats, target, hasDate,
                   store, fetched, merged, mergedFlows,
                   cursor, updatedStore, returned, outcome, upstreamRequests,
                   writeLog, lastEnded, afterFailure, completed, predecessors>>
    /\ restUnchanged

\* (variant) a catch that rethrows without clearing the flag
ClearFlagSkipped(p) ==
    /\ pc[p] = "catch"
    /\ pc' = [pc EXCEPT ![p] = "rethrow"]
    /\ UNCHANGED <<now, stores, campaignStats, flowStats, target, hasDate, store,
                   fetched, merged, mergedFlows, cursor, updatedStore,
                   returned, outcome, failedAt, upstreamRequests, writeLog,
                   lastEnded, afterFailure, completed, predecessors>>
    /\ restUnchanged

\* line 169: the catch clears the flag
ClearFlag(p) ==
    /\ pc[p] = "catch"
    /\ stores' = [stores EXCEPT ![target[p]].is_updating_dashboard = FALSE]
    /\ writeLog' = [writeLog EXCEPT ![p] = Append(@, "flag:false")]
    /\ pc' = [pc EXCEPT ![p] = "rethrow"]
    /\ UNCHANGED <<now, campaignStats, flowStats, target, hasDate, store,
                   fetched, merged, mergedFlows, cursor,
                   updatedStore, returned, outcome, failedAt,
                   upstreamRequests, lastEnded, afterFailure, completed, predecessors>>
    /\ restUnchanged

\* line 170: the error is rethrown to the caller (the route answers 500)
Rethrow(p) ==
    /\ pc[p] = "rethrow"
    /\ pc' = [pc EXCEPT ![p] = "done"]
    /\ outcome' = [outcome EXCEPT ![p] = "error"]
    /\ lastEnded' = [lastEnded EXCEPT ![target[p]] = "error"]
    /\ DropLocals(p)
    /\ UNCHANGED <<now, stores, campaignStats, flowStats, target, hasDate,
                   store, returned, failedAt, upstreamRequests, writeLog,
                   afterFailure, completed, predecessors>>
    /\ restUnchanged

\* time passes
Tick ==
    /\ now < StartMs + MaxTicks * TickMs
    /\ now' = now + TickMs
    /\ UNCHANGED <<stores, campaignStats, flowStats, pc, target, hasDate,
                   store, fetched, merged, mergedFlows,
                   cursor, updatedStore, returned, outcome, failedAt,
                   upstreamRequests, writeLog, lastEnded, afterFailure, completed, predecessors>>
    /\ restUnchanged

\* ------------------------------------------------------ POST /sync/bulk
\* a row that was synced one tick before the run starts
SyncedRow == [NoRow EXCEPT !.last_dashboard_sync = StartMs - TickMs]

\* the order in which Store.find returns the rows
StoreOrder == <<"s1", "s2">>

\* the datasets the upstream serves to the syncs of a bulk request: the
\* one with a single row per report and one with several
BulkDatasets == {1, 2}

\* res.status(...).json(...) of the bulk route
BulkAnswer(status, succeeded, failed) ==
    [status |-> status,
     successful_syncs |-> Len(succeeded),
     failed_syncs |-> Len(failed),
     succeeded |-> succeeded,
     failed |-> failed]

\* lines 346-424 of the route: validation, Store.find, and stores.map(...)
\* which starts one call per store found; a store without apiKey gets its
\* failure entry at once, the others enter klaviyoUpdateStats
BulkRequest(given, date, found) ==
    /\ bulkPc = "idle"
    /\ \A p \in Procs : pc[p] = "idle"
    /\ IF ~given \/ date = "invalid"
       THEN /\ bulkPc' = "responded"
            /\ bulkResponse' = BulkAnswer(400, <<>>, <<>>)
            /\ UNCHANGED <<bulkStores, pc, target, store, hasDate, outcome>>
       ELSE IF found = {}
       THEN /\ bulkPc' = "responded"
            /\ bulkResponse' = BulkAnswer(404, <<>>, <<>>)
            /\ UNCHANGED <<bulkStores, pc, target, store, hasDate, outcome>>
       ELSE LET Found(s) == s \in found
                rows == SelectSeq(StoreOrder, Found)
                runs(p) == p <= Len(rows)
                keyed(p) == runs(p) /\ Configured(rows[p])
            IN  /\ bulkPc' = "running"
                /\ bulkStores' = rows
                /\ pc' = [p \in Procs |-> IF keyed(p) THEN "gate"
                                          ELSE IF runs(p) THEN "done" ELSE "idle"]
                /\ target' = [p \in Procs |-> IF runs(p) THEN rows[p] ELSE target[p]]
                /\ store' = [p \in Procs |-> IF runs(p) THEN stores[rows[p]] ELSE store[p]]
                /\ hasDate' = [p \in Procs |-> keyed(p) /\ date = "valid"]
                /\ outcome' = [p \in Procs |-> IF runs(p) /\ ~keyed(p)
                                               THEN "unconfigured" ELSE outcome[p]]
                /\ UNCHANGED bulkResponse
    /\ UNCHANGED <<now, stores, campaignStats, flowStats, fetched, merged,
                   mergedFlows, cursor, updatedStore, returned, failedAt,
                   upstreamRequests, writeLog, lastEnded, afterFailure,
                   completed, predecessors, apiKeys>>
    /\ UNCHANGED <<fdVars, accessVars, pageVars, mergeVars>>

\* the entry of the store handled by call p in allResults
BulkEntry(p) ==
    [store_id |-> bulkStores[p], success |-> outcome[p] \in {"ok", "skipped"}]

Succeeded(entry) == entry.success

Failed(entry) == ~entry.success

\* (variant) without the try/catch around each store's sync: a rejected
\* sync rejects the Promise.all and the bulk request answers 500
BulkRespondUncaught ==
    /\ bulkPc = "running"
    /\ \A p \in 1..Len(bulkStores) : pc[p] = "done"
    /\ LET entries == [p \in 1..Len(bulkStores) |-> BulkEntry(p)]
       IN  bulkResponse' =
              IF \E p \in 1..Len(bulkStores) : outcome[p] = "error"
              THEN BulkAnswer(500, <<>>, <<>>)
              ELSE BulkAnswer(200, SelectSeq(entries, Succeeded),
                                   SelectSeq(entries, Failed))
    /\ bulkPc' = "responded"
    /\ UNCHANGED <<apiKeys, bulkStores>>
    /\ UNCHANGED <<fdVars, syncVars, accessVars, pageVars, mergeVars>>

\* lines 425-447 of the route: Promise.all of the per-store promises (none
\* rejects: each catches its own error), then the combined answer
BulkRespond ==
    /\ bulkPc = "running"
    /\ \A p \in 1..Len(bulkStores) : pc[p] = "done"
    /\ LET entries == [p \in 1..Len(bulkStores) |-> BulkEntry(p)]
       IN  bulkResponse' = BulkAnswer(200, SelectSeq(entries, Succeeded),
                                           SelectSeq(entries, Failed))
    /\ bulkPc' = "responded"
    /\ UNCHANGED <<apiKeys, bulkStores>>
    /\ UNCHANGED <<fdVars, syncVars, accessVars, pageVars, mergeVars>>

\* ------------------------------------- searchWithAccessControl, GET /:id
\* permissions.js lines 1-5
VIEW_ANALYTICS == "VIEW_ANALYTICS"
MANAGE_CAMPAIGNS == "MANAGE_CAMPAIGNS"
ADMIN == "ADMIN"

\* permission arrays a grant can hold
PermissionSets == {{}, {VIEW_ANALYTICS}, {MANAGE_CAMPAIGNS}, {ADMIN}}

\* user ids a request can carry: a user, an id of no user, no id
UserIds == {"u1", "u0", ""}

\* (variant) only the required permission itself counts
hasPermissionNoAdmin(storeAccess, requiredPermission) ==
    requiredPermission \in storeAccess.permissions

\* permissions.js lines 7-15
hasPermission(storeAccess, requiredPermission) ==
    IF ADMIN \in storeAccess.permissions THEN TRUE
    ELSE requiredPermission \in storeAccess.permissions

\* the documents of the stat collections the read API is run on
CampaignDoc(k) ==
    [_id |-> k,
     store_public_id |-> IF k % 2 = 1 THEN "s1" ELSE "s2",
     campaign_name |-> IF k = 1 THEN "alpha" ELSE "beta",
     created_at |-> k]

FlowDoc(k) ==
    [_id |-> k,
     store_public_id |-> IF k % 2 = 1 THEN "s2" ELSE "s1",
     flow_name |-> IF k = 1 THEN "beta" ELSE "alpha",
     flow_trigger_type |-> IF k % 2 = 1 THEN "metric" ELSE "added",
     created_at |-> 10 - k]

\* this.find / this.countDocuments / this.findById run on the model's collection
Collection(kind) == IF kind = "campaign" THEN campaignStats ELSE flowStats

\* the fields of the $or of lines 88-91 (campaign) and 121-125 (flow)
TextFields(kind, doc) ==
    IF kind = "campaign" THEN {doc.campaign_name, doc.store_public_id}
    ELSE {doc.flow_name, doc.flow_trigger_type, doc.store_public_id}

\* query texts of a request
Queries == {"", " ", "ALPHA", "s"}

\* String.prototype.trim on the query texts
Trim(q) == IF q = " " THEN "" ELSE q

\* $options "i": the comparison ignores case
Lower(q) == IF q = "ALPHA" THEN "alpha" ELSE q

\* {$regex: q, $options: "i"}: q occurs in the text
RegexTest(q, text) ==
    \/ Lower(q) = text
    \/ Lower(q) = "s" /\ text \in StoreIds

\* date ranges of a request: none, or {from, to}
NoRange == [from |-> 0, to |-> 0]
DateRanges == {NoRange, [from |-> 2, to |-> 9]}

\* .sort({created_at: dir}): dir -1 newest first, 1 oldest first
RECURSIVE SortDocs(_, _)
SortDocs(docs, dir) ==
    IF docs = {} THEN <<>>
    ELSE LET first == CHOOSE d \in docs : \A e \in docs :
                         IF dir = -1 THEN d.created_at >= e.created_at
                         ELSE d.created_at <= e.created_at
         IN  <<first>> \o SortDocs(docs \ {first}, dir)

\* .skip(skip).limit(limit)
Page(docs, skip, limit) == Slice(docs, skip, skip + limit)

\* the defaults of lines 58-64
DefaultOptions == [requiredPermission |-> VIEW_ANALYTICS, skip |-> 0,
                   limit |-> 50, sort |-> -1, dateRange |-> NoRange]

\* return { results: [], total: 0 } of lines 68 and 76: no query was run
EmptyPage == [results |-> <<>>, total |-> 0, queries |-> 0]

\* lines 79-112: the query restricted to storePublicIds, run as find and
\* countDocuments
RunSearch(kind, storePublicIds, query, options) ==
    LET searchQuery(doc) ==
            /\ doc.store_public_id \in storePublicIds
            /\ Trim(query) # "" =>
                  \E text \in TextFields(kind, doc) : RegexTest(query, text)
            /\ options.dateRange # NoRange =>
                  /\ doc.created_at >= options.dateRange.from
                  /\ doc.created_at <= options.dateRange.to
        found == {doc \in Collection(kind) : searchQuery(doc)}
    IN  [results |-> Page(SortDocs(found, options.sort), options.skip, options.limit),
         total |-> Cardinality(found),
         queries |-> 2]

\* user.stores.filter(storeAccess => hasPermission(storeAccess, requiredPermission))
AccessibleStores(userId, requiredPermission) ==
    LET Permitted(storeAccess) == hasPermission(storeAccess, requiredPermission)
    IN  SelectSeq(users[userId], Permitted)

\* (variant) no early return for a user without accessible store
searchWithAccessControlAlwaysQuerying(kind, userId, query, options) ==
    IF userId \notin DOMAIN users THEN EmptyPage
    ELSE LET accessibleStores == AccessibleStores(userId, options.requiredPermission)
         IN  RunSearch(kind, {accessibleStores[k].store_public_id :
                                  k \in 1..Len(accessibleStores)}, query, options)

\* CampaignStats.js lines 57-113, FlowStats.js lines 90-147
searchWithAccessControl(kind, userId, query, options) ==
    IF userId \notin DOMAIN users THEN EmptyPage
    ELSE LET accessibleStores == AccessibleStores(userId, options.requiredPermission)
         IN  IF Len(accessibleStores) = 0 THEN EmptyPage
             ELSE RunSearch(kind, {accessibleStores[k].store_public_id :
                                      k \in 1..Len(accessibleStores)}, query, options)

NoRequest == [op |-> "none"]

\* a call of searchWithAccessControl
Search(kind, userId, query, options) ==
    /\ request = NoRequest
    /\ userId # ""
    /\ LET r == searchWithAccessControl(kind, userId, query, options)
       IN  /\ response' = [status |-> 200, results |-> r.results, total |-> r.total]
           /\ statQueries' = r.queries
    /\ request' = [op |-> "search", kind |-> kind, userId |-> userId,
                   query |-> query, options |-> options]
    /\ UNCHANGED users
    /\ UNCHANGED <<fdVars, syncVars, bulkVars, pageVars, mergeVars>>

\* GET /:id of the reports router (lines 130-189) and of the flows router
\* (lines 601-646)
GetById(kind, id, userId) ==
    /\ request = NoRequest
    /\ request' = [op |-> "get", kind |-> kind, userId |-> userId, id |-> id]
    /\ IF userId = ""
       THEN /\ response' = [status |-> 400, results |-> <<>>, total |-> 0]
            /\ statQueries' = 0
       ELSE LET r == searchWithAccessControl(kind, userId, "",
                         [DefaultOptions EXCEPT !.limit = 1])
                byId == {doc \in Collection(kind) : doc._id = id}
            IN  /\ statQueries' = r.queries + 1
                /\ IF byId = {}
                   THEN response' = [status |-> 404, results |-> <<>>, total |-> 0]
                   ELSE LET stat == CHOOSE doc \in byId : TRUE
                            hasAccess == \E k \in 1..Len(r.results) :
                                r.results[k].store_public_id = stat.store_public_id
                        IN  response' =
                               IF hasAccess
                               THEN [status |-> 200, results |-> <<stat>>, total |-> 0]
                               ELSE [status |-> 403, results |-> <<>>, total |-> 0]
    /\ UNCHANGED users
    /\ UNCHANGED <<fdVars, syncVars, bulkVars, pageVars, mergeVars>>

\* ------------------------------------ klaviyoGetAll / klaviyoReportPost
\* shapes of res.data: an array, a report document whose
\* attributes.results is an array, a document whose attributes carry no
\* such array
DataShapes == {"array", "report", "document"}

\* a page the upstream serves; its items are named by the page number
Pages == [data : DataShapes, included : BOOLEAN]

\* status codes the upstream answers with
StatusCodes == {200, 404, 429, 500}

\* payloads a caller passes
Payloads == {1, 2}

\* res.ok of fetch: a status in the range 200-299
ResOk(status) == status >= 200 /\ status <= 299

\* no error, no value
NoError == [status |-> 0, body |-> 0]
NoResult == [data |-> [results |-> <<>>, items |-> <<>>, shape |-> "none",
                       hasResults |-> FALSE],
             included |-> <<>>, base |-> 0, links |-> 0]

\* lines 36-43: what fetch is called with; the body is set for POST and
\* PATCH only, as the JSON text of the payload
FetchOptions(method, data) ==
    [method |-> method,
     body |-> IF data # Absent /\ method \in {"POST", "PATCH"}
              THEN <<"json", data>> ELSE <<>>]

\* (variant) the status of the response is not looked at
klaviyoRequestLenient(method, page, data, status) ==
    [sent |-> FetchOptions(method, data), ok |-> TRUE, json |-> page,
     error |-> NoError]

\* klaviyoRequest: one fetch; a response that is not ok makes the call
\* throw an Error whose message holds the status and the body text (the
\* body of the answer of a page is named by the page)
klaviyoRequest(method, page, data, status) ==
    [sent |-> FetchOptions(method, data), ok |-> ResOk(status),
     json |-> page,
     error |-> IF ResOk(status) THEN NoError
               ELSE [status |-> status, body |-> page]]

\* lines 54-55: klaviyoGet passes no payload, klaviyoPost passes its own
klaviyoGet(page, status) == klaviyoRequest("GET", page, Absent, status)
klaviyoPost(page, data, status) == klaviyoRequest("POST", page, data, status)

\* res.links.next of page k (0: no next link)
NextLink(k) ==
    IF k < Len(chain) THEN k + 1
    ELSE IF endless THEN 1 ELSE 0

\* (variant) the base of the combined response is the latest response
LatestResponse(first, res) == res

\* lines 73 and 97: if (!firstResponse) firstResponse = res
FirstResponse(first, res) == IF first = 0 THEN res ELSE first

\* lines 74-75, 98-99: all = all.concat(array) when the field is an array
Concat(all, isArray, k) == IF isArray THEN Append(all, k) ELSE all

\* (variant) the top-level data array is taken for the results
TopLevelResults(all, page, k) == Concat(all, page.data = "array", k)

\* lines 102-108: allResults = allResults.concat(res.data.attributes.results)
NestedResults(all, page, k) == Concat(all, page.data = "report", k)

\* lines 80-85: the combined response of klaviyoGetAll
CombinedResponse ==
    [base |-> firstResponse,
     data |-> [shape |-> "array", items |-> allData, results |-> <<>>,
               hasResults |-> FALSE],
     included |-> allIncluded,
     links |-> NextLink(firstResponse)]

\* lines 114-123: the combined response of klaviyoReportPost;
\* attributes.results of the first document is overwritten when the
\* document has attributes
CombinedReport ==
    LET first == chain[firstResponse]
    IN  [base |-> firstResponse,
         data |-> IF first.data = "array"
                  THEN [shape |-> "array", items |-> <<firstResponse>>,
                        results |-> <<>>, hasResults |-> FALSE]
                  ELSE [shape |-> first.data, items |-> <<>>,
                        results |-> allResults, hasResults |-> TRUE],
         included |-> allIncluded,
         links |-> NextLink(firstResponse)]

\* lines 71-77 (klaviyoGetAll) and 95-111 (klaviyoReportPost): one
\* iteration of while (url); klaviyoRequest throws on a non-success status
\* and nothing catches it. The model stops following an endless chain
\* after two rounds.
FetchPage ==
    /\ pgPc = "loop"
    /\ url # 0
    /\ Len(pageRequests) < 2 * MaxChain
    /\ pageRequests' = Append(pageRequests, url)
    /\ \E status \in StatusCodes :
         LET res == IF post THEN klaviyoPost(url, payload, status)
                    ELSE klaviyoGet(url, status)
         IN  /\ ResOk(status) <=> url # failingPage
             /\ exchanges' = Append(exchanges,
                                [method |-> res.sent.method,
                                 body |-> res.sent.body, status |-> status])
             /\ IF ~res.ok
                THEN /\ pgPc' = "failed"
                     /\ pageError' = res.error
                     /\ UNCHANGED <<url, allData, allIncluded, allResults,
                                    firstResponse>>
                ELSE /\ firstResponse' = FirstResponse(firstResponse, res.json)
                     /\ allData' = Concat(allData, chain[url].data = "array", url)
                     /\ allIncluded' = Concat(allIncluded, chain[url].included, url)
                     /\ allResults' = IF post
                                      THEN NestedResults(allResults, chain[url], url)
                                      ELSE allResults
                     /\ url' = NextLink(url)
                     /\ UNCHANGED <<pgPc, pageError>>
    /\ UNCHANGED <<chain, endless, failingPage, post, payload, pageResult>>
    /\ UNCHANGED <<fdVars, syncVars, bulkVars, accessVars, mergeVars>>

\* lines 79-85 and 113-123: the loop has ended, the combined response is
\* returned
ReturnPages ==
    /\ pgPc = "loop"
    /\ url = 0
    /\ pgPc' = "done"
    /\ pageResult' = IF post THEN CombinedReport ELSE CombinedResponse
    /\ UNCHANGED <<chain, endless, failingPage, post, url, allData,
                   allIncluded, allResults, firstResponse, pageRequests,
                   payload, exchanges, pageError>>
    /\ UNCHANGED <<fdVars, syncVars, bulkVars, accessVars, mergeVars>>

\* a call of klaviyoGetAll or klaviyoReportPost on a chain of pages
InitPages ==
    /\ \E n \in 1..MaxChain : chain \in [1..n -> Pages]
    /\ endless \in BOOLEAN
    /\ failingPage \in 0..Len(chain)
    /\ post \in BOOLEAN
    /\ payload \in (IF post THEN Payloads ELSE {Absent})
    /\ pgPc = "loop"
    /\ url = 1
    /\ allData = <<>>
    /\ allIncluded = <<>>
    /\ allResults = <<>>
    /\ firstResponse = 0
    /\ pageRequests = <<>>
    /\ exchanges = <<>>
    /\ pageError = NoError
    /\ pageResult = NoResult

\* ------------------------------------- mergeFlowStatsWithMeta on its own
\* groupings a row of the flow-series report can carry
FlowGroupings ==
    {[flow_id |-> f, flow_message_id |-> m, send_channel |-> c] :
        f \in {"f1", "f2"}, m \in {"fm1", "fm2"}, c \in {"email", "sms"}}

\* row k of a report: a grouping and its statistics
ReportRow(g, k) ==
    [flow_id |-> g.flow_id, flow_message_id |-> g.flow_message_id,
     send_channel |-> g.send_channel, statistics |-> k]

\* the metadata arguments of the merges: an element is named by its id,
\* and its attributes.name is its id
MetaInputs ==
    [campaigns : SUBSET {"c1"}, flows : SUBSET {"f1"}, tags : SUBSET {"t1"},
     segments : SUBSET {"a1"}, lists : SUBSET {"a2"}]

NoMeta == [campaigns |-> {}, flows |-> {}, tags |-> {}, segments |-> {},
           lists |-> {}]

\* x?.attributes?.name || null of an element that was not found
NoName == "null"

\* relationships.tags.data of a campaign or flow of the metadata
TagIdsOf(found) == IF found THEN <<"t1">> ELSE <<>>

\* attributes.audiences.included of a campaign of the metadata
IncludedAudiencesOf(found) == IF found THEN <<"a1", "a2">> ELSE <<>>

\* ids.map(id => nameMap[id]).filter(Boolean): the names of the ids the
\* lookup knows, in order
NamesOf(ids, known) == SelectSeq(ids, LAMBDA id : id \in known)

\* stats-merger.js lines 46-49, 84-97: the fields a merged campaign record
\* takes from the campaigns, tags, segments and lists arguments
campaignLookups(row, meta) ==
    LET found == row.campaign_id \in meta.campaigns
    IN  [campaign_name |-> IF found THEN row.campaign_id ELSE NoName,
         tagIds |-> TagIdsOf(found),
         tagNames |-> NamesOf(TagIdsOf(found), meta.tags),
         included_audiences |-> IncludedAudiencesOf(found),
         included_audiences_names |->
             NamesOf(IncludedAudiencesOf(found), meta.segments \cup meta.lists)]

\* stats-merger.js lines 125-142: the fields a merged flow record takes
\* from the flows and tags arguments
flowLookups(row, meta) ==
    LET found == row.flow_id \in meta.flows
    IN  [flow_name |-> IF found THEN row.flow_id ELSE NoName,
         tagIds |-> TagIdsOf(found),
         tagNames |-> NamesOf(TagIdsOf(found), meta.tags)]

InitMerge ==
    /\ \E n \in 0..MaxRows : \E gs \in [1..n -> FlowGroupings] :
          reportRows = [k \in 1..n |-> ReportRow(gs[k], k)]
    /\ detailsMap \in SUBSET {"fm1", "fm2"}
    /\ mergeOutput = <<>>
    /\ mergePc = "call"

\* mergeFlowStatsWithMeta(results, flows, tags, messageDetailsMap); the
\* caller can call it once more with the same arguments
CallMergeFlowStats ==
    /\ mergePc \in {"call", "returned"}
    /\ mergeOutput' =
          LET records == mergeFlowStatsWithMeta(reportRows, detailsMap)
          IN  [k \in 1..Len(records) |->
                  records[k] @@ flowLookups(records[k], metaInputs)]
    /\ mergePc' = IF mergePc = "call" THEN "returned" ELSE "repeated"
    /\ UNCHANGED <<reportRows, detailsMap, campaignRows, campaignOutput,
                   campaignPc, metaInputs, flowDefinitions, messageMap, mapPc>>
    /\ UNCHANGED <<fdVars, syncVars, bulkVars, accessVars, pageVars>>

\* ------------------------------- mergeCampaignStatsWithMeta on its own
\* channels a row of the campaign-values report can carry
Channels == {"email", "sms", "push-notification"}

\* fields a row can supply in its statistics: two of the vector and one
\* that the vector does not have
SuppliedFields == {"opens", "revenue_per_recipient", "extra_metric"}

\* row k of a campaign report; the value of a supplied field is k
CampaignRow(k, channel, supplied) ==
    [campaign_id |-> "c1", campaign_message_id |-> k,
     send_channel |-> channel, statistics |-> [f \in supplied |-> k]]

InitCampaignMerge ==
    /\ \E n \in 0..MaxRows :
          \E cs \in [1..n -> Channels], fs \in [1..n -> SUBSET SuppliedFields] :
             campaignRows = [k \in 1..n |-> CampaignRow(k, cs[k], fs[k])]
    /\ campaignOutput = <<>>
    /\ campaignPc = "call"

\* (variant) the rows of the other channels are removed from the results
\* array itself before it is mapped
CallMergeCampaignStatsInPlace ==
    /\ campaignPc \in {"call", "returned"}
    /\ campaignRows' = SelectRows(campaignRows, {"email", "sms"})
    /\ campaignOutput' =
          LET records == mergeCampaignStatsWithMeta(campaignRows)
          IN  [k \in 1..Len(records) |->
                  records[k] @@ campaignLookups(records[k], metaInputs)]
    /\ campaignPc' = IF campaignPc = "call" THEN "returned" ELSE "repeated"
    /\ UNCHANGED <<reportRows, detailsMap, mergeOutput, mergePc, metaInputs,
                   flowDefinitions, messageMap, mapPc>>
    /\ UNCHANGED <<fdVars, syncVars, bulkVars, accessVars, pageVars>>

\* mergeCampaignStatsWithMeta(results, campaigns, smsCampaigns, ...); the
\* caller can call it once more with the same arguments
CallMergeCampaignStats ==
    /\ campaignPc \in {"call", "returned"}
    /\ campaignOutput' =
          LET records == mergeCampaignStatsWithMeta(campaignRows)
          IN  [k \in 1..Len(records) |->
                  records[k] @@ campaignLookups(records[k], metaInputs)]
    /\ campaignPc' = IF campaignPc = "call" THEN "returned" ELSE "repeated"
    /\ UNCHANGED <<reportRows, detailsMap, mergeOutput, mergePc, campaignRows,
                   metaInputs, flowDefinitions, messageMap, mapPc>>
    /\ UNCHANGED <<fdVars, syncVars, bulkVars, accessVars, pageVars>>

\* ---------------------------------- buildMessageDetailsMap on its own
\* ids a message of a flow definition can carry
MessageIds == {"fm1", "fm2"}

\* a message or main action that an action does not have
None == "none"

\* a flow definition: data.attributes.definition.actions is there or not
FlowDefinition(actions) == [actions |-> actions, defined |-> TRUE]

\* a definition without data.attributes.definition.actions
NoActions == [actions |-> <<>>, defined |-> FALSE]

\* data.current_experiment of an action: absent, or with the message ids
\* of its variations
NoExperiment == [present |-> FALSE, variations |-> <<>>]

Experiment(variations) == [present |-> TRUE, variations |-> variations]

\* the actions a definition can hold: the type, the id of data.message,
\* the id of data.main_action.data.message, and the message ids of the
\* variations of data.current_experiment; the fields are there or not
\* whatever the type is
Actions ==
    [type : {"send-email", "ab-test"},
     message : MessageIds \cup {None},
     main : {"fm2", None},
     experiment : {NoExperiment, Experiment(<<>>), Experiment(<<"fm1">>)}]

\* extractMessageDetails (lines 131-148): the details are those of the
\* message, named by its id
extractMessageDetails(id) == [message_name |-> id]

\* extractExperimentDetails (lines 155-182), by has_experiment
extractExperimentDetails(action) ==
    [has_experiment |->
        action.type = "ab-test" /\ action.experiment.present]

\* (variant) the main action of an action of any type is looked at
mainActionMessageAnyType(action) ==
    IF action.main # None THEN <<action.main>> ELSE <<>>

\* line 254: action.type === 'ab-test' && action.data?.main_action?.data?.message?.id
mainActionMessage(action) ==
    IF action.type = "ab-test" /\ action.main # None
    THEN <<action.main>> ELSE <<>>

\* line 246: action.data?.message?.id
directMessage(action) ==
    IF action.message # None THEN <<action.message>> ELSE <<>>

\* lines 262-272: action.type === 'ab-test' && action.data?.current_experiment?.variations
variationMessages(action) ==
    IF action.type = "ab-test" /\ action.experiment.present
    THEN action.experiment.variations ELSE <<>>

\* lines 244-273: the message ids an action assigns an entry to, in the
\* order of the assignments
assignedIds(action) ==
    directMessage(action) \o mainActionMessage(action)
        \o variationMessages(action)

\* messageMap[messageId] = { ...messageDetails, ...experimentDetails } for
\* every id of ids in order: a later assignment replaces an earlier one
RECURSIVE assignAll(_, _, _)
assignAll(map, ids, action) ==
    IF ids = <<>> THEN map
    ELSE assignAll((ids[1] :> (extractMessageDetails(ids[1])
                                 @@ extractExperimentDetails(action))) @@ map,
                   Tail(ids), action)

\* lines 243-273: the loop over the actions of one definition
RECURSIVE processActions(_, _)
processActions(map, actions) ==
    IF actions = <<>> THEN map
    ELSE processActions(assignAll(map, assignedIds(actions[1]), actions[1]),
                        Tail(actions))

\* lines 236-241: the loop over the definitions; one without actions is
\* skipped
RECURSIVE processDefinitions(_, _)
processDefinitions(map, defs) ==
    IF defs = <<>> THEN map
    ELSE processDefinitions(
             IF ~defs[1].defined THEN map
             ELSE processActions(map, defs[1].actions),
             Tail(defs))

\* const messageMap = {}
EmptyMap == [id \in {} |-> None]

\* buildMessageDetailsMap(flowDefinitions), lines 233-274
buildMessageDetailsMapFrom(defs) == processDefinitions(EmptyMap, defs)

\* the definitions passed in: up to MaxActions actions in two definitions,
\* and a definition without actions between them or not
InitDetails ==
    /\ \E n \in 0..MaxActions : \E acts \in [1..n -> Actions] :
          \E cut \in 0..n, gap \in BOOLEAN :
             flowDefinitions =
                 <<FlowDefinition(SubSeq(acts, 1, cut))>>
                 \o (IF gap THEN <<NoActions>> ELSE <<>>)
                 \o <<FlowDefinition(SubSeq(acts, cut + 1, n))>>
    /\ messageMap = EmptyMap
    /\ mapPc = "call"

\* buildMessageDetailsMap is called and returns
CallBuildMessageDetailsMap ==
    /\ mapPc = "call"
    /\ messageMap' = buildMessageDetailsMapFrom(flowDefinitions)
    /\ mapPc' = "returned"
    /\ UNCHANGED <<reportRows, detailsMap, mergeOutput, mergePc, campaignRows,
                   campaignOutput, campaignPc, metaInputs, flowDefinitions>>
    /\ UNCHANGED <<fdVars, syncVars, bulkVars, accessVars, pageVars>>

DetailsIdle ==
    /\ flowDefinitions = <<>> /\ messageMap = EmptyMap /\ mapPc = "idle"

\* stats-sync.js lines 117-144: both merges are called on the reports of
\* one fan-out
InitSyncMerges ==
    /\ \E d \in Datasets : /\ campaignRows = ReportCampaignRows(d)
                           /\ reportRows = ReportFlowRows(d)
    /\ detailsMap \in SUBSET {"fm1", "fm2"}
    /\ mergeOutput = <<>> /\ mergePc = "call"
    /\ campaignOutput = <<>> /\ campaignPc = "call"

\* the variables of the other parts keep these values in a specification
\* that does not use them
BulkIdle ==
    /\ apiKeys = StoreIds /\ bulkPc = "idle"
    /\ bulkStores = <<>> /\ bulkResponse = BulkAnswer(0, <<>>, <<>>)

AccessIdle ==
    /\ users = [u \in {"u1"} |-> <<>>] /\ request = NoRequest
    /\ response = [status |-> 0, results |-> <<>>, total |-> 0]
    /\ statQueries = 0

PagesIdle ==
    /\ chain = <<>> /\ endless = FALSE /\ failingPage = 0 /\ post = FALSE
    /\ pgPc = "done" /\ url = 0 /\ allData = <<>> /\ allIncluded = <<>>
    /\ allResults = <<>> /\ firstResponse = 0 /\ pageRequests = <<>>
    /\ payload = Absent /\ exchanges = <<>> /\ pageError = NoError
    /\ pageResult = NoResult

FlowMergeIdle ==
    /\ reportRows = <<>> /\ detailsMap = {}
    /\ mergeOutput = <<>> /\ mergePc = "idle"

CampaignMergeIdle ==
    /\ campaignRows = <<>> /\ campaignOutput = <<>> /\ campaignPc = "idle"

MergeIdle ==
    FlowMergeIdle /\ CampaignMergeIdle /\ metaInputs = NoMeta /\ DetailsIdle

\* the scheduler variables are not used by the sync specification
FDIdle ==
    /\ fdPc = "done" /\ flowIds = <<>> /\ i = 0 /\ totalRequests = 0
    /\ results = <<>> /\ errors = <<>> /\ clock = 0 /\ batchStartTime = 0
    /\ elapsedMs = 0 /\ batchLen = 0 /\ effectiveBatchSize = 0
    /\ shouldThrottle = FALSE /\ actualBatch = <<>> /\ delayMs = 0
    /\ inputIds = <<>> /\ requestLog = <<>> /\ failedIds = {}
    /\ leftAtStart = 0

Init == InitSync /\ FDIdle /\ BulkIdle /\ AccessIdle /\ PagesIdle /\ MergeIdle

Next ==
    \/ \E p \in Procs, s \in StoreIds, d \in BOOLEAN : ReadStore(p, s, d)
    \/ \E p \in Procs : Gate(p)
    \/ \E p \in Procs : SetFlag(p)
    \/ \E p \in Procs : StartFanOut(p)
    \/ \E p \in Procs : FanOutFail(p)
    \/ \E p \in Procs, d \in Datasets : Merge(p, d)
    \/ \E p \in Procs, defs \in SUBSET {"f1", "f2"} : FlowDefs(p, defs)
    \/ \E p \in Procs : MergeFail(p)
    \/ \E p \in Procs : UpdateStore(p)
    \/ \E p \in Procs : UpsertCampaign(p)
    \/ \E p \in Procs : UpsertFlow(p)
    \/ \E p \in Procs : PersistFail(p)
    \/ \E p \in Procs : ClearFlag(p)
    \/ \E p \in Procs : Rethrow(p)
    \/ Tick

Spec == Init /\ [][Next]_vars

\* getFlowDefinitions on its own: the sync variables stay at their initial values
InitScheduler ==
    InitFD /\ InitSync /\ BulkIdle /\ AccessIdle /\ PagesIdle /\ MergeIdle

NextFD == BeginBatch \/ EndBatch \/ NextBatch \/ ReturnResults

SpecFD == InitScheduler /\ [][NextFD]_vars

\* getFlowDefinitions whose awaits all settle: every fetch is answered
\* (Promise.all resolves) and every setTimeout fires, so a step that is
\* possible is eventually taken
SpecFDSettling == SpecFD /\ WF_vars(NextFD)

\* POST /sync/bulk and POST /sync: one bulk request or one single request;
\* the stores are configured or not, never synced or synced a tick ago
InitBulk ==
    /\ stores \in [StoreIds -> {NoRow, SyncedRow}]
    /\ campaignStats = {}
    /\ flowStats = {}
    /\ InitRequests
    /\ apiKeys \in SUBSET StoreIds
    /\ bulkPc = "idle"
    /\ bulkStores = <<>>
    /\ bulkResponse = BulkAnswer(0, <<>>, <<>>)
    /\ FDIdle /\ AccessIdle /\ PagesIdle /\ MergeIdle

NextBulk ==
    \/ \E given \in BOOLEAN, date \in {"none", "valid", "invalid"},
          found \in SUBSET StoreIds : BulkRequest(given, date, found)
    \/ \E d \in BOOLEAN : ReadStore(1, "s1", d)
    \/ \E p \in Procs : Gate(p)
    \/ \E p \in Procs : SetFlag(p)
    \/ \E p \in Procs : StartFanOut(p)
    \/ \E p \in Procs : FanOutFail(p)
    \/ \E p \in Procs, d \in BulkDatasets : Merge(p, d)
    \/ \E p \in Procs, defs \in SUBSET {"f1", "f2"} : FlowDefs(p, defs)
    \/ \E p \in Procs : MergeFail(p)
    \/ \E p \in Procs : UpdateStore(p)
    \/ \E p \in Procs : UpsertCampaign(p)
    \/ \E p \in Procs : UpsertFlow(p)
    \/ \E p \in Procs : PersistFail(p)
    \/ \E p \in Procs : ClearFlag(p)
    \/ \E p \in Procs : Rethrow(p)
    \/ Tick
    \/ BulkRespond

SpecBulk == InitBulk /\ [][NextBulk]_vars

\* the read API: one request on collections filled beforehand
InitAccess ==
    /\ \E granted \in SUBSET StoreIds, perms \in [StoreIds -> PermissionSets] :
          LET Granted(s) == s \in granted
              accounts == SelectSeq(StoreOrder, Granted)
          IN  users = [u \in {"u1"} |->
                         [k \in 1..Len(accounts) |->
                             [store_public_id |-> accounts[k],
                              permissions |-> perms[accounts[k]]]]]
    /\ \E ids \in SUBSET (1..MaxDocs) :
          /\ campaignStats = {CampaignDoc(k) : k \in ids}
          /\ flowStats = {FlowDoc(k) : k \in ids}
    /\ request = NoRequest
    /\ response = [status |-> 0, results |-> <<>>, total |-> 0]
    /\ statQueries = 0
    /\ stores = [s \in StoreIds |-> NoRow]
    /\ InitRequests
    /\ FDIdle /\ BulkIdle /\ PagesIdle /\ MergeIdle

NextAccess ==
    \/ \E kind \in {"campaign", "flow"}, userId \in UserIds, query \in Queries,
          limit \in {1, 50}, skip \in {0, 1}, sort \in {-1, 1},
          dateRange \in DateRanges,
          requiredPermission \in {VIEW_ANALYTICS, MANAGE_CAMPAIGNS} :
          Search(kind, userId, query,
                 [requiredPermission |-> requiredPermission,
                  skip |-> skip, limit |-> limit, sort |-> sort,
                  dateRange |-> dateRange])
    \/ \E kind \in {"campaign", "flow"}, id \in 1..(MaxDocs + 1), userId \in UserIds :
          GetById(kind, id, userId)

SpecAccess == InitAccess /\ [][NextAccess]_vars

\* klaviyoGetAll / klaviyoReportPost on their own
InitPaging ==
    /\ InitPages
    /\ InitSync /\ FDIdle /\ BulkIdle /\ AccessIdle /\ MergeIdle

NextPages == FetchPage \/ ReturnPages

SpecPages == InitPaging /\ [][NextPages]_vars

\* one call of mergeFlowStatsWithMeta, or one of mergeCampaignStatsWithMeta
InitMerging ==
    /\ \/ InitMerge /\ CampaignMergeIdle
       \/ FlowMergeIdle /\ InitCampaignMerge
       \/ InitSyncMerges
    /\ metaInputs \in MetaInputs
    /\ DetailsIdle
    /\ InitSync /\ FDIdle /\ BulkIdle /\ AccessIdle /\ PagesIdle

NextMerge == CallMergeFlowStats \/ CallMergeCampaignStats

SpecMerge == InitMerging /\ [][NextMerge]_vars

\* buildMessageDetailsMap on its own
InitBuilding ==
    /\ InitDetails
    /\ FlowMergeIdle /\ CampaignMergeIdle /\ metaInputs = NoMeta
    /\ InitSync /\ FDIdle /\ BulkIdle /\ AccessIdle /\ PagesIdle

NextDetails == CallBuildMessageDetailsMap

SpecDetails == InitBuilding /\ [][NextDetails]_vars

\* =================================================================
\* Properties of klaviyoUpdateStats (specification Spec)
\* =================================================================

\* the sync of p holds the lock: from the flag write of line 23 to the end
\* of persisting, or to the clearing write of the catch
HoldsLock(p) == pc[p] \in {"locked", "fanout", "flowdefs", "update",
                           "campaigns", "flows", "catch"}

\* a step in which request p leaves the gate
LeavesGate(p) == pc[p] = "gate" /\ pc'[p] # "gate"

\* C1: in every reachable state the sync flag of a store is true exactly
\* while a sync of that store is active (lock acquired, and fetching,
\* merging or persisting, every upsert included), and false otherwise.
C1_FlagIffSyncActive ==
    \A s \in StoreIds :
        stores[s].is_updating_dashboard
            = (\E p \in Procs : target[p] = s /\ HoldsLock(p))

\* C2: klaviyoUpdateStats called with a row whose flag is set, or whose last
\* sync is younger than the freshness threshold, is a no-op: it returns the
\* row it was given, issues no upstream request, writes nothing to storage
\* and raises no error.
C2_GateNoOp ==
    [][\A p \in Procs :
         (/\ LeavesGate(p)
          /\ \/ store[p].is_updating_dashboard
             \/ now - store[p].last_dashboard_sync < FRESHNESS_THRESHOLD_MS)
         => /\ pc'[p] = "done"
            /\ outcome'[p] = "skipped"
            /\ returned'[p] = store[p]
            /\ upstreamRequests'[p] = 0
            /\ writeLog'[p] = <<>>
            /\ stores' = stores
            /\ campaignStats' = campaignStats
            /\ flowStats' = flowStats]_vars

\* C2 witness: a call skipped because the row it was given is fresh
C2_Witness ==
    \E p \in Procs :
        /\ outcome[p] = "skipped"
        /\ ~store[p].is_updating_dashboard
        /\ store[p].last_dashboard_sync # Never
        /\ returned[p] = store[p]

\* C3: in every sync that passes the gate, the write that sets the flag is
\* applied before the first upstream request of that sync is issued.
C3_FlagBeforeRequests ==
    \A p \in Procs :
        upstreamRequests[p] > 0
            => /\ writeLog[p] # <<>>
               /\ writeLog[p][1] = "flag:true"

\* C3 witness: a sync has issued its fan-out requests
C3_Witness ==
    \E p \in Procs : pc[p] = "fanout" /\ upstreamRequests[p] = FanOutSize

C6_RetryAfterFailure ==
    \A p \in Procs : afterFailure[p] => outcome[p] # "skipped"

\* C7: the gate decides on the row as it was read, not on the row in
\* storage: a request whose row was read with the flag clear and the last
\* sync stale passes the gate even if another request has set the flag
\* since, and a request whose row was read with the flag set is a no-op.
C7_GateOnRowAsRead ==
    [][\A p \in Procs :
         LeavesGate(p) =>
            /\ store[p].is_updating_dashboard => outcome'[p] = "skipped"
            /\ (/\ ~store[p].is_updating_dashboard
                /\ now - store[p].last_dashboard_sync >= FRESHNESS_THRESHOLD_MS)
               => /\ outcome'[p] # "skipped"
                  /\ (hasDate[p] \/ store[p].last_dashboard_sync # Never)
                        => pc'[p] = "lock"]_vars

\* C7 witness: two syncs of one store are in their fetch phase together
C7_Witness ==
    \E p, q \in Procs :
        /\ p # q
        /\ target[p] = target[q]
        /\ pc[p] = "fanout"
        /\ pc[q] = "fanout"

\* the call of p returns (line 166)
Returns(p) == pc[p] = "flows" /\ pc'[p] = "done"

\* a flow-definition fetch of the sync of p failed: a merged flow record
\* is without the details of its message
DefinitionMissing(p) ==
    \E k \in 1..Len(mergedFlows[p]) : mergedFlows[p][k].message_name = Absent

\* number of writes of one kind in a write log
CountOf(log, write) == Cardinality({k \in 1..Len(log) : log[k] = write})

\* no other request is at work on the store of p
AloneOnStore(p) ==
    \A q \in Procs \ {p} : target[q] = target[p] => pc[q] \in {"idle", "done"}

\* C11: a sync in which flow-definition fetches fail, the eight fan-out
\* fetches having succeeded, is not aborted: it returns successfully, has
\* written the account row once with the flag false, has issued one upsert
\* for every merged campaign record and for every row of the flow report,
\* and every row of the flow report has its record in storage.
C11_DefinitionFailuresDoNotAbort ==
    [][\A p \in Procs :
         (Returns(p) /\ DefinitionMissing(p)) =>
            LET rows == ReportFlowRows(fetched[p])
                campaigns == mergeCampaignStatsWithMeta(ReportCampaignRows(fetched[p]))
            IN  /\ outcome'[p] = "ok"
                /\ returned'[p] = updatedStore[p]
                /\ ~returned'[p].is_updating_dashboard
                /\ CountOf(writeLog[p], "account") = 1
                /\ CountOf(writeLog[p], "campaign") = Len(campaigns)
                /\ CountOf(writeLog[p], "flow") = Len(rows)
                /\ \A k \in 1..Len(rows) : \E doc \in flowStats' :
                      /\ doc.store = target[p]
                      /\ doc.flow_id = rows[k].flow_id
                      /\ doc.flow_message_id = rows[k].flow_message_id
                      /\ doc.send_channel = rows[k].send_channel
                /\ \A k \in 1..Len(campaigns) : \E doc \in campaignStats' :
                      /\ doc.store_id = target[p]
                      /\ doc.campaign_id = campaigns[k].campaign_id
                /\ AloneOnStore(p) => ~stores'[target[p]].is_updating_dashboard]_vars

\* C11 witness: a sync has returned successfully although the definition of
\* flow f2 could not be fetched while that of f1 could
C11_Witness ==
    \E p \in Procs :
        /\ outcome[p] = "ok"
        /\ \E k \in 1..Len(completed[p].mergedFlows) :
              /\ completed[p].mergedFlows[k].flow_id = "f2"
              /\ completed[p].mergedFlows[k].message_name = Absent
        /\ \E k \in 1..Len(completed[p].mergedFlows) :
              /\ completed[p].mergedFlows[k].flow_id = "f1"
              /\ completed[p].mergedFlows[k].message_name # Absent

\* both calls returned successfully, on the same store, q having started
\* when p had returned, and both merged the same records (same upstream
\* data, same definitions fetched)
SameSyncTwice(p, q) ==
    /\ p # q
    /\ p \in predecessors[q]
    /\ completed[p] # NoRun
    /\ completed[q] # NoRun
    /\ target[p] = target[q]
    /\ completed[p].merged = completed[q].merged
    /\ completed[p].mergedFlows = completed[q].mergedFlows

\* C13: running the same successful sync twice, with identical upstream
\* data and identical flow-definition fetch outcomes, leaves the same
\* campaign and flow stat records with the same field values as running it
\* once.
C13_SyncIdempotent ==
    \A p, q \in Procs :
        SameSyncTwice(p, q)
            => /\ completed[p].campaigns = completed[q].campaigns
               /\ completed[p].flows = completed[q].flows

\* C13 witness: the second of the two syncs was given the row the first one
\* had written, and both persisted a campaign with two messages
C13_Witness ==
    \E p, q \in Procs :
        /\ SameSyncTwice(p, q)
        /\ store[q].last_dashboard_sync # Never
        /\ store[q].last_dashboard_sync = returned[p].last_dashboard_sync
        /\ Len(completed[p].merged) = 2
        /\ completed[q].flows # {}

\* C14: when a sync upserts a stat record whose key is already in storage,
\* the persisted record afterwards equals the newly merged record in full:
\* no field value of the previous version survives that the new record does
\* not carry.
C14_UpsertReplacesInFull ==
    [][\A p \in Procs :
         /\ (/\ pc[p] = "flows"
             /\ cursor[p] <= Len(mergedFlows[p])
             /\ cursor'[p] = cursor[p] + 1)
            => LET stat == mergedFlows[p][cursor[p]]
               IN  \E doc \in flowStats' :
                      /\ doc.store = target[p]
                      /\ doc.flow_id = stat.flow_id
                      /\ doc.flow_message_id = stat.flow_message_id
                      /\ doc.send_channel = stat.send_channel
                      /\ doc.statistics = stat.statistics
                      /\ doc.message_name = stat.message_name
         /\ (/\ pc[p] = "campaigns"
             /\ cursor[p] <= Len(merged[p])
             /\ cursor'[p] = cursor[p] + 1)
            => LET stat == merged[p][cursor[p]]
               IN  \E doc \in campaignStats' :
                      /\ doc.store_id = target[p]
                      /\ doc.campaign_id = stat.campaign_id
                      /\ doc.campaign_message_id = stat.campaign_message_id
                      /\ doc.send_channel = stat.send_channel
                      /\ doc.statistics = stat.statistics]_vars

\* C15: after a successful sync, storage holds one campaign stat record for
\* every (channel, campaign, campaign-message) tuple of the merged output:
\* two merged rows of one campaign with different message ids are both
\* persisted.
C15_OneCampaignRecordPerTuple ==
    [][\A p \in Procs :
         (Returns(p) /\ \A q \in Procs \ {p} : pc[q] = "idle") =>
            \A k \in 1..Len(merged[p]) : \E doc \in campaignStats' :
               /\ doc.store_id = target[p]
               /\ doc.campaign_id = merged[p][k].campaign_id
               /\ doc.campaign_message_id = merged[p][k].campaign_message_id
               /\ doc.send_channel = merged[p][k].send_channel]_vars

\* =================================================================
\* Properties of POST /sync/bulk (specification SpecBulk)
\* =================================================================

\* positions of the entries of a store in a list of the bulk answer
EntriesOf(list, s) == {j \in 1..Len(list) : list[j].store_id = s}

\* C12: in a bulk sync every store found appears exactly once in the
\* combined answer, as a success or as a failure (successful_syncs +
\* failed_syncs = number of stores found); the error of one store's sync is
\* recorded for that store only: the bulk request does not fail, and the
\* entry of every other store tells the outcome of that store's own sync.
C12_BulkIsolation ==
    (bulkPc = "responded" /\ bulkStores # <<>>) =>
        /\ bulkResponse.status = 200
        /\ bulkResponse.successful_syncs = Len(bulkResponse.succeeded)
        /\ bulkResponse.failed_syncs = Len(bulkResponse.failed)
        /\ bulkResponse.successful_syncs + bulkResponse.failed_syncs
              = Len(bulkStores)
        /\ \A k \in 1..Len(bulkStores) :
              LET asSuccess == EntriesOf(bulkResponse.succeeded, bulkStores[k])
                  asFailure == EntriesOf(bulkResponse.failed, bulkStores[k])
              IN  /\ Cardinality(asSuccess) + Cardinality(asFailure) = 1
                  /\ asFailure # {} <=> outcome[k] \in {"error", "unconfigured"}
                  /\ asSuccess # {} <=> outcome[k] \in {"ok", "skipped"}
                  /\ outcome[k] = "skipped"
                        => \/ store[k].is_updating_dashboard
                           \/ store[k].last_dashboard_sync # Never

\* C12 witness: the bulk request has answered; the sync of the first store
\* failed in its fan-out, the sync of the second one succeeded
C12_Witness ==
    /\ bulkPc = "responded"
    /\ Len(bulkStores) = 2
    /\ outcome[1] = "error" /\ failedAt[1] = "fanout"
    /\ outcome[2] = "ok"
    /\ bulkResponse.successful_syncs = 1
    /\ bulkResponse.failed_syncs = 1

\* =================================================================
\* Properties of mergeFlowStatsWithMeta (specification SpecMerge)
\* =================================================================

\* the key of a flow stat record (FlowStats.js line 83)
FlowKey(r) == <<r.flow_id, r.flow_message_id, r.send_channel>>

KeysDistinct(records) ==
    \A j, k \in 1..Len(records) :
        j # k => FlowKey(records[j]) # FlowKey(records[k])

\* C16: for every flow report given to mergeFlowStatsWithMeta, no two
\* output records have the same key (flow_id, flow_message_id, channel).
C16_OutputKeysUnique ==
    mergePc = "returned" => KeysDistinct(mergeOutput)

\* C16 (amended): for every flow report whose rows carry pairwise distinct
\* groupings (flow_id, flow_message_id, send_channel), the merge returns
\* one record per row and no two output records have the same key.
C16_OutputKeysUniqueForDistinctGroupings ==
    (mergePc = "returned" /\ KeysDistinct(reportRows))
        => /\ Len(mergeOutput) = Len(reportRows)
           /\ KeysDistinct(mergeOutput)

\* C16 witness: two rows of one flow and one channel with different
\* messages were merged into two records
C16_Witness ==
    /\ mergePc = "returned"
    /\ Len(mergeOutput) = 2
    /\ mergeOutput[1].flow_id = mergeOutput[2].flow_id
    /\ mergeOutput[1].send_channel = mergeOutput[2].send_channel
    /\ mergeOutput[1].flow_message_id # mergeOutput[2].flow_message_id

\* =================================================================
\* Properties of the read API (specification SpecAccess)
\* =================================================================

\* the user holds the permission, or ADMIN, on the account
Holds(userId, account, permission) ==
    /\ userId \in DOMAIN users
    /\ \E k \in 1..Len(users[userId]) :
          /\ users[userId][k].store_public_id = account
          /\ \/ permission \in users[userId][k].permissions
             \/ ADMIN \in users[userId][k].permissions

\* the document matches the query text and the date range of the request
MatchesRequest(doc) ==
    /\ Trim(request.query) # "" =>
          \E text \in TextFields(request.kind, doc) : RegexTest(request.query, text)
    /\ request.options.dateRange # NoRange =>
          /\ doc.created_at >= request.options.dateRange.from
          /\ doc.created_at <= request.options.dateRange.to

\* the matching documents of the accounts the user of the request may read
Permitted ==
    {doc \in Collection(request.kind) :
        /\ Holds(request.userId, doc.store_public_id,
                 request.options.requiredPermission)
        /\ MatchesRequest(doc)}

\* C17: for every user, query text, date range, sort and paging,
\* searchWithAccessControl (campaign and flow) returns the requested page
\* of exactly the matching records of the accounts on which the user holds
\* the required permission or ADMIN, never a record of another account, and
\* total counts the same restricted set.
C17_SearchRestrictedToPermittedAccounts ==
    request.op = "search" =>
        /\ response.results = Page(SortDocs(Permitted, request.options.sort),
                                   request.options.skip, request.options.limit)
        /\ response.total = Cardinality(Permitted)
        /\ \A k \in 1..Len(response.results) :
              Holds(request.userId, response.results[k].store_public_id,
                    request.options.requiredPermission)

\* C17 witness: a search for VIEW_ANALYTICS by a user whose only sufficient
\* grant holds ADMIN alone returned a record of that account, and left out
\* a matching record of an account the user may not read
C17_Witness ==
    /\ request.op = "search"
    /\ request.userId \in DOMAIN users
    /\ request.options.requiredPermission = VIEW_ANALYTICS
    /\ Len(response.results) > 0
    /\ \A k \in 1..Len(users[request.userId]) :
          VIEW_ANALYTICS \notin users[request.userId][k].permissions
    /\ \E doc \in Collection(request.kind) :
          /\ MatchesRequest(doc)
          /\ ~Holds(request.userId, doc.store_public_id, VIEW_ANALYTICS)

\* C18: get-by-id of an existing stat record answers AccessDenied if and
\* only if the user lacks VIEW_ANALYTICS and ADMIN on the record's account:
\* every user holding one of them receives the record, also with grants on
\* several accounts; no other user receives it.
C18_GetByIdAccess ==
    (/\ request.op = "get"
     /\ request.userId # ""
     /\ \E doc \in Collection(request.kind) : doc._id = request.id)
    => LET stat == CHOOSE doc \in Collection(request.kind) : doc._id = request.id
       IN  IF Holds(request.userId, stat.store_public_id, VIEW_ANALYTICS)
           THEN response.status = 200 /\ response.results = <<stat>>
           ELSE response.status = 403

C20_PaginationCapped ==
    Len(pageRequests) >= 2 * MaxChain => pgPc # "loop"

\* =================================================================
\* Properties of getFlowDefinitions (specification SpecFD)
\* =================================================================

\* ids for which a request was issued, in order
Requested == [k \in 1..Len(requestLog) |-> requestLog[k][1]]

\* times at which the requests were issued
RequestTimes == [k \in 1..Len(requestLog) |-> requestLog[k][2]]

NotFailed(id) == id \notin failedIds

\* C8: getFlowDefinitions attempts a fetch for every id of the list before
\* it returns; ids cut from a truncated batch are requeued and none is
\* skipped, also when the truncated batch is the last one and holds fewer
\* than three ids.
C8_EveryIdAttempted ==
    fdPc = "done" => \A id \in Range(inputIds) : id \in Range(Requested)

\* C9: getFlowDefinitions issues no more than 30 requests within the first
\* 10 seconds and no more than 1 request in any second after that.
C9_RateLimit ==
    /\ Cardinality({k \in 1..Len(requestLog) : RequestTimes[k] < BurstPhaseMs})
          <= BurstCap
    /\ \A j, k \in 1..Len(requestLog) :
          (j < k /\ RequestTimes[j] >= BurstPhaseMs)
              => RequestTimes[k] - RequestTimes[j] >= 1000

\* C10: getFlowDefinitions returns exactly the definitions of the ids whose
\* fetch succeeded: a failed fetch contributes nothing, and stops neither
\* the other fetches of its batch nor a later batch.
C10_ResultsAreSuccessfulFetches ==
    fdPc # "batch"
        => /\ results = SelectSeq(Requested, NotFailed)
           /\ totalRequests = Len(requestLog)

\* C10 witness: the fetch of id 1 failed; ids 2 and 3 of its batch and id 4
\* of a later batch are in the result
C10_Witness ==
    /\ fdPc = "done"
    /\ 1 \in failedIds
    /\ {2, 3, 4} \subseteq Range(results)
    /\ 1 \notin Range(results)

\* =================================================================
\* Properties of klaviyoGetAll / klaviyoReportPost (specification SpecPages)
\* =================================================================

\* the page numbers of the chain, in link order
PageNumbers == [k \in 1..Len(chain) |-> k]

\* the pages whose data is an array, in page order
ArrayPages ==
    LET IsArray(k) == chain[k].data = "array"
    IN  SelectSeq(PageNumbers, IsArray)

\* the pages that carry an included array, in page order
IncludedPages ==
    LET HasIncluded(k) == chain[k].included
    IN  SelectSeq(PageNumbers, HasIncluded)

\* the pages whose data.attributes.results is an array, in page order
ReportPages ==
    LET IsReport(k) == chain[k].data = "report"
    IN  SelectSeq(PageNumbers, IsReport)

IsPrefix(a, b) == Len(a) <= Len(b) /\ a = SubSeq(b, 1, Len(a))

\* C21: on a finite chain of pages klaviyoGetAll requests the pages once
\* each in link order and stops at the page without a next link; it
\* returns the data arrays of all pages concatenated in page order, the
\* included arrays concatenated in page order, and the other fields and
\* the links of the first page.
C21_GetAllConcatenates ==
    (~post /\ ~endless) =>
        /\ IsPrefix(pageRequests, PageNumbers)
        /\ pgPc = "done" =>
              /\ pageRequests = PageNumbers
              /\ pageResult.data.shape = "array"
              /\ pageResult.data.items = ArrayPages
              /\ pageResult.included = IncludedPages
              /\ pageResult.base = 1
              /\ pageResult.links = NextLink(1)

\* a chain of several pages, some without a data array or without an
\* included array, has been fetched to its end
C21_Witness ==
    /\ ~post /\ ~endless /\ pgPc = "done"
    /\ Len(chain) >= 3
    /\ Len(ArrayPages) = 2
    /\ Len(IncludedPages) = 2
    /\ ArrayPages # IncludedPages
    /\ pageResult.data.items = ArrayPages

\* C22: a response with a non-success status makes the request fail with
\* an error that carries the status and the body of that response, the
\* page is not requested again, and the paginated fetch it belongs to
\* fails with it and returns nothing.
C22_FailureFailsWholeFetch ==
    \A k \in 1..Len(exchanges) :
        ~ResOk(exchanges[k].status) =>
            /\ k = Len(exchanges)
            /\ pgPc = "failed"
            /\ pageError = [status |-> exchanges[k].status,
                            body |-> pageRequests[k]]
            /\ Cardinality({j \in 1..Len(pageRequests) :
                               pageRequests[j] = pageRequests[k]}) = 1
            /\ pageResult = NoResult

\* a later page of a fetch failed after earlier pages had been collected
C22_Witness ==
    /\ pgPc = "failed"
    /\ Len(exchanges) >= 2
    /\ allData # <<>>
    /\ pageError.status = 429
    /\ pageResult = NoResult

\* C23: klaviyoReportPost sends every request, the first and those to the
\* next-page links, by POST with the payload it was given; on a finite
\* chain whose first page is a document it returns that document with
\* attributes.results set to the nested results arrays of all pages
\* concatenated in page order.
C23_ReportPostConcatenates ==
    post =>
        /\ \A k \in 1..Len(exchanges) :
              /\ exchanges[k].method = "POST"
              /\ exchanges[k].body = <<"json", payload>>
        /\ (~endless /\ pgPc = "done" /\ chain[1].data # "array") =>
              /\ pageRequests = PageNumbers
              /\ pageResult.base = 1
              /\ pageResult.data = [shape |-> chain[1].data, items |-> <<>>,
                                    results |-> ReportPages,
                                    hasResults |-> TRUE]

\* a report of several pages, one of them with a top-level data array,
\* has been fetched to its end
C23_Witness ==
    /\ post /\ ~endless /\ pgPc = "done"
    /\ Len(chain) >= 3
    /\ chain[1].data = "report"
    /\ Len(ReportPages) = 2
    /\ ArrayPages # <<>>
    /\ pageResult.data.results = ReportPages
    /\ Len(exchanges) = Len(chain)

\* =================================================================
\* Properties of the merges (specification SpecMerge)
\* =================================================================

\* C24: every row of the flow report yields one merged record, in order,
\* and the record carries the message details if and only if the message
\* of the row is in the lookup; with the lookup built from the definitions
\* that were fetched, the rows of a flow whose definition is missing have
\* their records, without message details.
C24_DetailsIffInLookup ==
    mergePc = "returned" =>
        /\ Len(mergeOutput) = Len(reportRows)
        /\ \A k \in 1..Len(reportRows) :
              /\ FlowKey(mergeOutput[k]) = FlowKey(reportRows[k])
              /\ mergeOutput[k].statistics = reportRows[k].statistics
              /\ mergeOutput[k].message_name # Absent
                    <=> reportRows[k].flow_message_id \in detailsMap
        /\ \A defs \in SUBSET {"f1", "f2"} :
              detailsMap = buildMessageDetailsMap(defs, reportRows) =>
                 \A k \in 1..Len(reportRows) :
                    (/\ reportRows[k].flow_id \notin defs
                     /\ FlowOfMessage(reportRows[k].flow_message_id)
                            = reportRows[k].flow_id)
                    => mergeOutput[k].message_name = Absent

\* the definition of f1 was fetched, that of f2 was not: one record with
\* details and one without
C24_Witness ==
    /\ mergePc = "returned"
    /\ detailsMap = buildMessageDetailsMap({"f1"}, reportRows)
    /\ Len(mergeOutput) = 2
    /\ mergeOutput[1].flow_id = "f1" /\ mergeOutput[1].message_name # Absent
    /\ mergeOutput[2].flow_id = "f2" /\ mergeOutput[2].message_name = Absent

\* the rows of the campaign report whose channel is email or sms, by their
\* positions, in input order
KeptRows ==
    LET IsMessaging(k) == campaignRows[k].send_channel \in {"email", "sms"}
    IN  SelectSeq([k \in 1..Len(campaignRows) |-> k], IsMessaging)

\* C25: mergeCampaignStatsWithMeta returns one record for each row whose
\* channel is email or sms, in input order, and none for a row of another
\* channel.
C25_OnlyEmailAndSms ==
    campaignPc = "returned" =>
        /\ Len(campaignOutput) = Len(KeptRows)
        /\ \A j \in 1..Len(campaignOutput) :
              /\ campaignOutput[j].send_channel \in {"email", "sms"}
              /\ j <= Len(KeptRows) =>
                    /\ campaignOutput[j].campaign_message_id
                          = campaignRows[KeptRows[j]].campaign_message_id
                    /\ campaignOutput[j].send_channel
                          = campaignRows[KeptRows[j]].send_channel

\* a push row between an email row and an sms row was left out
C25_Witness ==
    /\ campaignPc = "returned"
    /\ Len(campaignRows) >= 2
    /\ \E k \in 1..Len(campaignRows) :
          campaignRows[k].send_channel = "push-notification"
    /\ \E k \in 1..Len(campaignRows) :
          campaignRows[k].send_channel = "sms"
    /\ Len(campaignOutput) = Len(campaignRows) - 1

\* C26: every record mergeCampaignStatsWithMeta returns has every field of
\* the statistics vector, with a number: the value of the row where the row
\* supplies the field, 0 where it does not, also for a row without any
\* statistics.
C26_StatisticsVectorComplete ==
    campaignPc = "returned" =>
        \A j \in 1..Len(campaignOutput) :
            j <= Len(KeptRows) =>
               LET given == campaignRows[KeptRows[j]].statistics
                   stats == campaignOutput[j].statistics
               IN  \A f \in StatFields :
                      /\ f \in DOMAIN stats
                      /\ stats[f] \in Nat
                      /\ stats[f] = IF f \in DOMAIN given THEN given[f] ELSE 0

\* a row without statistics and a row that supplies one field of the
\* vector have their records
C26_Witness ==
    /\ campaignPc = "returned"
    /\ Len(campaignOutput) = 2
    /\ campaignRows[1].statistics = <<>>
    /\ campaignOutput[1].statistics["opens"] = 0
    /\ DOMAIN campaignRows[2].statistics = {"opens"}
    /\ campaignOutput[2].statistics["opens"] = 2
    /\ campaignOutput[2].statistics["recipients"] = 0

\* =================================================================
\* Properties of the sync routes (specification SpecBulk)
\* =================================================================

\* the request handled as p has had no effect: no upstream request, no
\* write, the row of its store as it was read, with the flag not set, and
\* no document of the store in the stat collections
WithoutEffect(p) ==
    /\ upstreamRequests[p] = 0
    /\ writeLog[p] = <<>>
    /\ stores[target[p]] = store[p]
    /\ ~stores[target[p]].is_updating_dashboard
    /\ \A doc \in campaignStats : doc.store_id # target[p]
    /\ \A doc \in flowStats : doc.store # target[p]

\* C27: a sync request, single or as part of a bulk request, for a store
\* without upstream credentials never enters the sync: it is answered
\* with an error for that store, the sync flag is not set, no upstream
\* request is issued and nothing is written.
C27_UnconfiguredStoreHasNoEffect ==
    \A p \in Procs :
        (pc[p] # "idle" /\ target[p] \notin apiKeys) =>
            /\ pc[p] = "done"
            /\ outcome[p] = "unconfigured"
            /\ WithoutEffect(p)
            /\ (bulkPc = "responded" /\ p <= Len(bulkStores)) =>
                  /\ EntriesOf(bulkResponse.failed, target[p]) # {}
                  /\ EntriesOf(bulkResponse.succeeded, target[p]) = {}

\* a bulk request has answered: its first store has no credentials and is
\* listed as failed, its second store was synced
C27_Witness ==
    /\ bulkPc = "responded"
    /\ Len(bulkStores) = 2
    /\ bulkStores[1] \notin apiKeys
    /\ outcome[1] = "unconfigured"
    /\ outcome[2] = "ok"
    /\ bulkResponse.failed_syncs = 1
    /\ WithoutEffect(1)

\* =================================================================
\* Batch sizes and request counts of getFlowDefinitions (specification SpecFD)
\* =================================================================

\* C28: in every iteration the effective batch size is at least 1 and at
\* most maxBurst, and so is the number of requests of the batch.
C28_BatchSizeWithinBounds ==
    fdPc \in {"batch", "wait"} =>
        /\ effectiveBatchSize >= 1
        /\ effectiveBatchSize <= maxBurst
        /\ Len(actualBatch) >= 1
        /\ Len(actualBatch) <= maxBurst

\* an iteration in the burst phase whose remaining allowance is less than
\* one request: the batch has one request
C28_Witness ==
    /\ fdPc = "batch"
    /\ shouldThrottle
    /\ elapsedMs < BurstPhaseMs
    /\ BurstLimitMilli(elapsedMs) - 1000 * totalRequests < 1000
    /\ effectiveBatchSize = 1
    /\ batchLen = maxBurst

\* C29 as stated: in the burst phase the number of requests issued so far,
\* after each batch, is at most the burst allowance computed at the start
\* of the batch.
C29_WithinBurstAllowance ==
    (fdPc = "wait" /\ elapsedMs < BurstPhaseMs) =>
        1000 * totalRequests <= BurstLimitMilli(elapsedMs)

\* C29 amended: in the burst phase the number of requests issued so far,
\* after each batch, is at most the burst allowance computed at the start
\* of the batch, or the batch was a throttled batch of one request and
\* the number before it was within the allowance.
C29_WithinBurstAllowanceOrSingleRequest ==
    (fdPc = "wait" /\ elapsedMs < BurstPhaseMs) =>
        \/ 1000 * totalRequests <= BurstLimitMilli(elapsedMs)
        \/ /\ Len(actualBatch) = 1
           /\ shouldThrottle
           /\ 1000 * (totalRequests - 1) <= BurstLimitMilli(elapsedMs)

\* a batch of one request has taken the count above the allowance
C29_Witness ==
    /\ fdPc = "wait"
    /\ elapsedMs < BurstPhaseMs
    /\ Len(actualBatch) = 1
    /\ 1000 * totalRequests > BurstLimitMilli(elapsedMs)

NoDuplicates(list) ==
    \A j, k \in 1..Len(list) : list[j] = list[k] => j = k

\* C30: the id list the sync hands over names every flow once, and one
\* call of getFlowDefinitions on it requests no id more than once, also
\* after batches were truncated and their remaining ids spliced back.
C30_NoIdFetchedTwice ==
    /\ NoDuplicates(inputIds)
    /\ NoDuplicates([k \in 1..Len(requestLog) |-> requestLog[k][1]])

\* a call has returned after a batch was truncated and its remaining ids
\* were spliced back
C30_Witness ==
    /\ fdPc = "done"
    /\ Len(flowIds) > Len(inputIds)
    /\ Len(inputIds) >= 5
    /\ Len(requestLog) >= 5
    /\ NoDuplicates([k \in 1..Len(requestLog) |-> requestLog[k][1]])

\* flowIds.length - i: the number of ids left beyond the cursor
IdsLeft == Len(flowIds) - i

\* C31: getFlowDefinitions terminates for every finite id list when every
\* fetch settles: at the end of every iteration fewer ids are left beyond
\* the cursor than at its start, also when a truncated batch has re-inserted
\* ids into the list, and the call eventually returns.
C31_Terminates ==
    /\ [][(fdPc = "wait" /\ fdPc' = "loop") => IdsLeft' < leftAtStart]_vars
    /\ <>(fdPc = "done")

\* C31 witness: the call has returned after two batches were truncated and
\* their ids re-inserted into the list
C31_Witness ==
    /\ fdPc = "done"
    /\ Len(flowIds) >= Len(inputIds) + 3
    /\ IdsLeft <= 0

\* C32: when getFlowDefinitions returns, the error list holds one entry for
\* each id whose fetch failed and none for an id whose fetch succeeded.
C32_ErrorListRecordsFailures ==
    fdPc = "done"
        => /\ Range(errors) = failedIds
           /\ Len(errors) = Cardinality(failedIds)

\* the writes of request p that the order of lines 152-164 is about
OrderedWrites == {"account", "campaign", "flow"}

\* the place of a write in the order of lines 152-164
WriteRank(w) == IF w = "account" THEN 1 ELSE IF w = "campaign" THEN 2 ELSE 3

\* the fan-out fetches or the flow-definition fetches of p are still to be
\* issued or answered
Fetching(p) == pc[p] \in {"locked", "fanout", "flowdefs"}

\* C33: in a sync the steps are ordered: once the account row is written
\* with the new timestamp and cleared flag all upstream fetching (the eight
\* fan-out fetches and the flow-definition fetches) is over; the account
\* write precedes every stat-record upsert, and all campaign upserts
\* precede all flow upserts; a successful sync has made the account write
\* exactly once.
C33_StepsOrdered ==
    \A p \in Procs :
       LET log == SelectSeq(writeLog[p], LAMBDA w : w \in OrderedWrites)
       IN  /\ \A j, k \in 1..Len(log) :
                 j < k => /\ WriteRank(log[j]) <= WriteRank(log[k])
                          /\ log[k] # "account"
           /\ log # <<>> => /\ log[1] = "account"
                            /\ ~Fetching(p)
                            /\ upstreamRequests[p] >= FanOutSize
                            /\ fetched[p] # 0 =>
                                  upstreamRequests[p] = FanOutSize +
                                     Cardinality(uniqueFlowIds(
                                         ReportFlowRows(fetched[p])))
           /\ outcome[p] = "ok" => log # <<>>

\* C33 witness: a sync has succeeded after writing the account row, two
\* campaign records and two flow records
C33_Witness ==
    \E p \in Procs :
       /\ outcome[p] = "ok"
       /\ writeLog[p] = <<"flag:true", "account", "campaign", "campaign",
                          "flow", "flow">>

\* FlowStats.js line 83: the fields of the unique index
StoredFlowKey(doc) ==
    <<doc.store, doc.flow_id, doc.flow_message_id, doc.send_channel>>

\* C34: after any sequence of syncs of any accounts (successful, failed,
\* no-op, or racing on the same account), storage holds at most one flow
\* stat record per key (account, flow_id, flow_message_id, channel).
C34_OneFlowRecordPerKey ==
    \A d1, d2 \in flowStats : StoredFlowKey(d1) = StoredFlowKey(d2) => d1 = d2

\* C34 witness: two syncs of the same account have raced, both have
\* upserted the flow record of message fm1 from different reports
C34_Witness ==
    /\ target[1] = target[2]
    /\ \A p \in Procs : /\ pc[p] = "flows"
                         /\ cursor[p] >= 2
    /\ fetched[1] # fetched[2]
    /\ \E doc \in flowStats : doc.flow_message_id = "fm1"

\* the tuple a campaign stat record stands for: the account and the
\* groupings (campaign_id, campaign_message_id, send_channel) of the row
StoredCampaignKey(doc) ==
    <<doc.store_id, doc.campaign_id, doc.campaign_message_id, doc.send_channel>>

CampaignKeys == {StoredCampaignKey(doc) : doc \in campaignStats}

FlowKeys == {StoredFlowKey(doc) : doc \in flowStats}

StepOf(p) == pc'[p] # pc[p] \/ cursor'[p] # cursor[p]

CampaignDocsOf(coll, s) == {doc \in coll : doc.store_id = s}

FlowDocsOf(coll, s) == {doc \in coll : doc.store = s}

\* C36: a sync of account A, in any interleaving with syncs of other
\* accounts, writes only the account row of A and stat records whose
\* account is A: every step of the sync leaves the account row and the
\* campaign and flow records of every other account unchanged.
C36_WritesOnlyOwnAccount ==
    [][\A p \in Procs : StepOf(p) =>
          \A s \in StoreIds \ {target'[p]} :
             /\ stores'[s] = stores[s]
             /\ CampaignDocsOf(campaignStats', s) = CampaignDocsOf(campaignStats, s)
             /\ FlowDocsOf(flowStats', s) = FlowDocsOf(flowStats, s)]_vars

\* C36 witness: the syncs of two accounts have interleaved and each has
\* written its account row, campaign records and flow records
C36_Witness ==
    /\ target[1] # target[2]
    /\ \A p \in Procs : /\ "flow" \in Range(writeLog[p])
                         /\ CampaignDocsOf(campaignStats, target[p]) # {}
                         /\ FlowDocsOf(flowStats, target[p]) # {}
                         /\ stores[target[p]].last_dashboard_sync # Never
    /\ \E p \in Procs : pc[p] = "flows"

\* request p carries no date and read the row of a store that has its
\* credentials, was never synced and is not being synced
FirstSyncWithoutDate(p) ==
    /\ pc[p] # "idle"
    /\ ~hasDate[p]
    /\ Configured(target[p])
    /\ store[p].last_dashboard_sync = Never
    /\ ~store[p].is_updating_dashboard

\* C37: a sync request without an explicit date for an account that has
\* never been synced (no last-sync timestamp, flag false, credentials
\* present) passes the freshness gate, acquires the lock and reaches the
\* fan-out fetch: it does not end before that.
C37_FirstSyncReachesFanOut ==
    \A p \in Procs :
       (FirstSyncWithoutDate(p) /\ pc[p] = "done")
          => /\ "flag:true" \in Range(writeLog[p])
             /\ upstreamRequests[p] >= FanOutSize

ActionPlaces ==
    UNION {{<<d, k>> : k \in 1..Len(flowDefinitions[d].actions)} :
              d \in {j \in 1..Len(flowDefinitions) : flowDefinitions[j].defined}}

ActionAt(place) == flowDefinitions[place[1]].actions[place[2]]

\* the action is an A/B test with a current experiment
RunsExperiment(action) == action.type = "ab-test" /\ action.experiment.present

\* the id appears in the action as a direct message, as the main action
\* of an A/B test, or as a variation of the current experiment of an A/B
\* test
AppearsIn(id, action) ==
    \/ action.message = id
    \/ action.type = "ab-test" /\ action.main = id
    \/ /\ RunsExperiment(action)
       /\ \E v \in 1..Len(action.experiment.variations) :
             action.experiment.variations[v] = id

Holders(id) == {place \in ActionPlaces : AppearsIn(id, ActionAt(place))}

\* the holder that comes last in the order of the definitions and actions
LastHolder(id) ==
    CHOOSE place \in Holders(id) :
        \A other \in Holders(id) :
            \/ other[1] < place[1]
            \/ other[1] = place[1] /\ other[2] <= place[2]

\* C39: buildMessageDetailsMap has an entry for a message id if and only
\* if the id appears, in some action of some given flow definition, as a
\* direct message, as the main action of an A/B-test action, or as a
\* variation of the current experiment of an A/B-test action; an entry has
\* has_experiment true exactly when its action (the last one that holds
\* the id, when several do) is an A/B test with a current experiment.
C39_EntriesOfAppearingMessages ==
    mapPc = "returned" =>
        /\ DOMAIN messageMap = {id \in MessageIds : Holders(id) # {}}
        /\ \A id \in DOMAIN messageMap :
              /\ messageMap[id].has_experiment
                    <=> RunsExperiment(ActionAt(LastHolder(id)))
              /\ (\A place \in Holders(id) : RunsExperiment(ActionAt(place)))
                    => messageMap[id].has_experiment
              /\ (\A place \in Holders(id) : ~RunsExperiment(ActionAt(place)))
                    => ~messageMap[id].has_experiment

\* C39 witness: fm2 is the direct message of a send action and fm1 a
\* variation of the experiment of an A/B test; a definition without
\* actions was given too; fm1 has an entry with has_experiment true and
\* fm2 one with has_experiment false
C39_Witness ==
    /\ mapPc = "returned"
    /\ \E d \in 1..Len(flowDefinitions) : ~flowDefinitions[d].defined
    /\ \E place \in ActionPlaces :
          /\ ActionAt(place).type = "ab-test"
          /\ ActionAt(place).message = None
          /\ ActionAt(place).experiment = Experiment(<<"fm1">>)
    /\ \E place \in ActionPlaces :
          /\ ActionAt(place).type = "send-email"
          /\ ActionAt(place).message = "fm2"
    /\ DOMAIN messageMap = {"fm1", "fm2"}
    /\ messageMap["fm1"].has_experiment
    /\ ~messageMap["fm2"].has_experiment

====
